---- MODULE Spec2Model ----
(***************************************************************************)
(* Model of the zstd-dict repository: the dictionary-aware Compressor      *)
(* (package zstddict), the gRPC codec Zstd with its pooled streaming       *)
(* wrappers (package grpccodec), and the engine pools both are built on.   *)
(*                                                                         *)
(* The zstd engine itself (github.com/klauspost/compress/zstd) is an       *)
(* external library.  It is modelled by what its calls do as far as the    *)
(* repository's code can observe: a frame carries a magic number, the      *)
(* dictionary ID, the content size, the payload coded against the          *)
(* dictionary content, and a checksum of the plain content.                *)
(***************************************************************************)
EXTENDS Integers, Sequences, FiniteSets

\* ------------------------------------------------------------------ bounds
MaxLen == 2          \* longest plain buffer drawn as an input
MaxByte == 1         \* bytes are 0..MaxByte
MaxDictId == 2       \* dictionary IDs are 1..MaxDictId
MaxInst == 2         \* engine instances constructed in one behaviour
MaxPuts == 2         \* Puts one stream wrapper makes before the caller lets go of it
MaxPool == 2         \* entries one pool holds at a time
MaxCalls == 3        \* Register calls in one behaviour
MaxMsgs == 2         \* messages in one test set of the analyzer
MaxSize == 2         \* compressed sizes and dictionary sizes are 0..MaxSize
MaxTreeDepth == 3    \* levels of the directory tree ListFiles walks
MaxDepthArg == 2     \* greatest MaxDepth a ListFiles request carries
MaxFaults == 1       \* entries of a walk that fail to be read or stat'ed
MaxSamples == 10     \* samples handed to one training call

\* ------------------------------------------------------- bytes and buffers
Byte == 0..MaxByte
Modulus == MaxByte + 1

Buffers == UNION {[1..n -> Byte] : n \in 0..MaxLen}

\* ------------------------------------------------------------ dictionaries
\* c.dict / z.dict: nil, a well-formed dictionary (an ID and its content),
\* or bytes that are not a dictionary at all.
NilDict == [kind |-> "nil", id |-> 0, content |-> 0]
BadDict == [kind |-> "malformed", id |-> 0, content |-> 0]
ValidDicts == [kind : {"dict"}, id : 1..MaxDictId, content : 1..MaxByte + 1]
DictBytes == {NilDict, BadDict} \cup ValidDicts

\* len(c.dict) of part_000:159, as far as the model distinguishes lengths.
DictLen(d) == IF d.kind = "nil" THEN 0 ELSE IF d.kind = "malformed" THEN 1 ELSE 8 + d.content

\* ------------------------------------------------------------- zstd engine
Nil == [kind |-> "nil", dict |-> NilDict, conc |-> 0]

ErrNone == "nil"
ErrMagicMismatch == "invalid input: magic number mismatch"
ErrUnexpectedEOF == "unexpected EOF"
ErrUnknownDictionary == "unknown dictionary"
ErrCRCMismatch == "invalid input: checksum wrong"

\* the frame magic number: a value no plain byte of the model takes
Magic == MaxByte + 8

\* zstd.WithEncoderDict / zstd.WithDecoderDicts fail on bytes that do not
\* parse as a dictionary; no option fails without a dictionary.
OptionsOK(d) == d.kind # "malformed"

\* zstd.NewWriter(nil, opts...): (*Encoder, error); conc is the value given
\* to WithEncoderConcurrency, 0 when the option is absent.
NewWriter(d, conc) ==
  IF OptionsOK(d) THEN [kind |-> "enc", dict |-> d, conc |-> conc] ELSE Nil

\* zstd.NewReader(nil, opts...): (*Decoder, error)
NewReader(d) ==
  IF OptionsOK(d) THEN [kind |-> "dec", dict |-> d, conc |-> 0] ELSE Nil

Checksum(src) ==
  LET RECURSIVE Sum(_)
      Sum(k) == IF k = 0 THEN 0 ELSE Sum(k - 1) + k * (src[k] + 1)
  IN Sum(Len(src)) % 7

Code(d, x) == (x + d.content) % Modulus
Uncode(d, y) == (y + Modulus * (1 + d.content) - d.content) % Modulus

\* One frame: header (magic, dictionary ID, content size), payload, checksum.
FrameOf(d, src) ==
  <<Magic, d.id, Len(src)>> \o [k \in 1..Len(src) |-> Code(d, src[k])]
     \o <<Checksum(src)>>

\* Encoder.EncodeAll(src, dst): appends one frame to dst; an empty src
\* appends nothing (the encoders are built without WithZeroFrames).
EncodeAll(enc, src, dst) ==
  IF Len(src) = 0 THEN dst ELSE dst \o FrameOf(enc.dict, src)

\* Decoder.DecodeAll(input, dst): decodes frame after frame, appending to
\* dst.  The end of the input between frames ends the call without error.
\* A frame naming a dictionary the decoder was not given fails with no
\* bytes; every other failure returns what was appended so far.
RECURSIVE DecodeFrames(_, _, _)
DecodeFrames(dec, input, out) ==
  IF Len(input) = 0 THEN [out |-> out, err |-> ErrNone]
  ELSE IF input[1] # Magic THEN [out |-> out, err |-> ErrMagicMismatch]
  ELSE IF Len(input) < 3 THEN [out |-> out, err |-> ErrUnexpectedEOF]
  ELSE IF input[2] # 0 /\ input[2] # dec.dict.id
    THEN [out |-> <<>>, err |-> ErrUnknownDictionary]
  ELSE IF Len(input) < 3 + input[3] + 1
    THEN [out |-> out, err |-> ErrUnexpectedEOF]
  ELSE
    LET n == input[3]
        d == IF input[2] = 0 THEN NilDict ELSE dec.dict
        plain == [k \in 1..n |-> Uncode(d, input[3 + k])]
        rest == SubSeq(input, 3 + n + 2, Len(input))
    IN IF input[3 + n + 1] # Checksum(plain)
         THEN [out |-> out \o plain, err |-> ErrCRCMismatch]
         ELSE DecodeFrames(dec, rest, out \o plain)

DecodeAll(dec, input, dst) == DecodeFrames(dec, input, dst)

\* ------------------------------------------------------ package zstddict
\* New(opts...) with no option, or with WithDictBytes(d): c.dict = d.
\* New itself constructs no engine, so it accepts every d.
New(d) == [dict |-> d]

\* an encoder pool constructor that drops the dictionary
Mut_encoderPool_New_NoDict(c) == NewWriter(NilDict, 0)

\* c.encoderPool.New (the closure New installs): nil when construction fails.
Compressor_encoderPool_New(c) ==
  IF c.dict # NilDict THEN NewWriter(c.dict, 0) ELSE NewWriter(NilDict, 0)

\* a decoder pool constructor that drops the dictionary
Mut_decoderPool_New_NoDict(c) == NewReader(NilDict)

\* c.decoderPool.New
Compressor_decoderPool_New(c) ==
  IF c.dict # NilDict THEN NewReader(c.dict) ELSE NewReader(NilDict)

\* x.(*zstd.Encoder) / x.(*zstd.Decoder) on the value Get returned: the
\* assertion panics on the nil interface value the constructors return on
\* failure, so the "== nil" test that follows it never sees a nil.
TypeAssertPanics(v) == v = Nil

OneShotOps == {"Compress", "CompressTo", "Decompress", "DecompressTo"}
IsEncodeOp(op) == op \in {"Compress", "CompressTo"}

\* the pool an operation of Compressor draws from
PoolOf(op) == IF IsEncodeOp(op) THEN "c.encoderPool" ELSE "c.decoderPool"

\* the closure sync.Pool calls on a miss, per pool of Compressor
CompressorPoolNew(c, op) ==
  IF IsEncodeOp(op) THEN Compressor_encoderPool_New(c)
  ELSE Compressor_decoderPool_New(c)

\* a body whose decoding operations drop the error of DecodeAll
Mut_OneShotBody_ErrorDropped(op, eng, dst, data) ==
  CASE op = "Compress"     -> [out |-> EncodeAll(eng, data, <<>>), err |-> ErrNone]
    [] op = "CompressTo"   -> [out |-> EncodeAll(eng, data, dst), err |-> ErrNone]
    [] op = "Decompress"   -> [out |-> DecodeAll(eng, data, <<>>).out, err |-> ErrNone]
    [] op = "DecompressTo" -> [out |-> DecodeAll(eng, data, dst).out, err |-> ErrNone]

\* a body whose "To" operations start from an empty buffer
Mut_OneShotBody_DstDropped(op, eng, dst, data) ==
  CASE op = "Compress"     -> [out |-> EncodeAll(eng, data, <<>>), err |-> ErrNone]
    [] op = "CompressTo"   -> [out |-> EncodeAll(eng, data, <<>>), err |-> ErrNone]
    [] op = "Decompress"   -> DecodeAll(eng, data, <<>>)
    [] op = "DecompressTo" -> DecodeAll(eng, data, <<>>)

\* The body of a one-shot operation once its engine is acquired: what it
\* returns.  Compress and Decompress pass a nil dst.
OneShotBody(op, eng, dst, data) ==
  CASE op = "Compress"     -> [out |-> EncodeAll(eng, data, <<>>), err |-> ErrNone]
    [] op = "CompressTo"   -> [out |-> EncodeAll(eng, data, dst), err |-> ErrNone]
    [] op = "Decompress"   -> DecodeAll(eng, data, <<>>)
    [] op = "DecompressTo" -> DecodeAll(eng, data, dst)

\* a release into the other pool of the Compressor
Mut_DeferredPuts_OtherPool(op, inst, res) ==
  <<[pool |-> IF IsEncodeOp(op) THEN "c.decoderPool" ELSE "c.encoderPool",
     inst |-> inst]>>

\* a release that is skipped when the body returned an error
Mut_DeferredPuts_SkipOnError(op, inst, res) ==
  IF res.err = ErrNone THEN <<[pool |-> PoolOf(op), inst |-> inst]>> ELSE <<>>

\* "defer c.encoderPool.Put(enc)" / "defer c.decoderPool.Put(dec)": the Puts
\* a one-shot operation runs when it returns, whatever it returns.
DeferredPuts(op, inst, res) == <<[pool |-> PoolOf(op), inst |-> inst]>>

\* c.Writer(w): a streaming encoder on w, with the dictionary when there is one
Compressor_Writer(c) ==
  IF c.dict # NilDict THEN NewWriter(c.dict, 0) ELSE NewWriter(NilDict, 0)

\* a Reader that leaves the dictionary out
Mut_Compressor_Reader_NoDict(c) == NewReader(NilDict)

\* c.Reader(r): a streaming decoder on r, with the dictionary when there is one
Compressor_Reader(c) ==
  IF c.dict # NilDict THEN NewReader(c.dict) ELSE NewReader(NilDict)

\* Encoder.Close of a stream: what was written since the stream began goes
\* to the sink as one frame; a stream nothing was written to leaves the
\* sink as it is.
Encoder_Close(enc, filling, sink) ==
  IF Len(filling) = 0 THEN sink ELSE sink \o FrameOf(enc.dict, filling)

\* Decoder.Read over the whole source: the bytes its Reads deliver one after
\* the other and the error that ends them (io.EOF is ErrNone here)
Decoder_ReadAll(dec, source) == DecodeFrames(dec, source, <<>>)

\* ----------------------------------------------------- package grpccodec
NameZstd == "zstd"
NameZstdDict == "zstd-dict"

NewZstd == [name |-> NameZstd, dict |-> NilDict]
NewZstdDict(d) == [name |-> NameZstdDict, dict |-> d]

\* z.encoderPool.New installed by initPools: concurrency pinned to 1
Zstd_encoderPool_New(z) ==
  IF z.dict # NilDict THEN NewWriter(z.dict, 1) ELSE NewWriter(NilDict, 1)

\* z.decoderPool.New installed by initPools
Zstd_decoderPool_New(z) ==
  IF z.dict # NilDict THEN NewReader(z.dict) ELSE NewReader(NilDict)

\* Zstd.Name()
Zstd_Name(k) == k.name

\* ---------------------------------------------- construction and registry
\* a nil *Compressor / *Zstd
NoCodec == [kind |-> "nil", name |-> "", dict |-> NilDict]

\* What a codec is configured from: nothing, bytes handed to WithDictBytes
\* or NewZstdDict (nil, bytes that are no dictionary, a dictionary), or a
\* path handed to WithDictFile (no such file, or a file holding bytes; an
\* empty file reads as bytes that are no dictionary).
NoSource == [kind |-> "none", exists |-> FALSE, dict |-> NilDict]
RegDicts == {NilDict, BadDict} \cup [kind : {"dict"}, id : {1, 2}, content : {1}]
DictSources ==
  {NoSource}
    \cup [kind : {"bytes"}, exists : {TRUE}, dict : RegDicts]
    \cup [kind : {"file"}, exists : {TRUE}, dict : RegDicts \ {NilDict}]
    \cup {[kind |-> "file", exists |-> FALSE, dict |-> NilDict]}

ErrNotExist == "open: no such file or directory"

\* WithDictBytes(dict): the option stores the bytes and returns nil.
WithDictBytes(src) == [dict |-> src.dict, err |-> ErrNone]

\* a WithDictFile that reads the file and stores nothing
Mut_WithDictFile_NotStored(src) ==
  IF src.exists THEN [dict |-> NilDict, err |-> ErrNone]
  ELSE [dict |-> NilDict, err |-> ErrNotExist]

\* WithDictFile(path): os.ReadFile, its error returned, else the bytes stored.
WithDictFile(src) ==
  IF src.exists THEN [dict |-> src.dict, err |-> ErrNone]
  ELSE [dict |-> NilDict, err |-> ErrNotExist]

\* zstddict.New(opts...) with no option or one: (*Compressor, error).  The
\* options run, the two pools get their constructors, nothing is built.
New_opts(src) ==
  LET o == IF src.kind = "bytes" THEN WithDictBytes(src)
           ELSE IF src.kind = "file" THEN WithDictFile(src)
           ELSE [dict |-> NilDict, err |-> ErrNone]
  IN IF o.err # ErrNone THEN [codec |-> NoCodec, err |-> o.err]
     ELSE [codec |-> [kind |-> "Compressor", name |-> "", dict |-> New(o.dict).dict],
           err |-> ErrNone]

\* c.HasDict(): c.dict != nil
HasDict(k) == k.dict # NilDict

\* c.DictSize(): len(c.dict)
DictSize(k) == DictLen(k.dict)

\* *Zstd as the constructors of grpccodec return it
AsCodec(k) == [kind |-> "Zstd", name |-> k.name, dict |-> k.dict]

\* the names grpc's registry is asked for
RegNames == {NameZstd, NameZstdDict}
NoEntry == [codec |-> NoCodec, by |-> -1]

\* a registry that keeps the first compressor registered under a name
Mut_RegisterCompressor_KeepFirst(r, k, by) ==
  IF r[Zstd_Name(k)] # NoEntry THEN r
  ELSE [r EXCEPT ![Zstd_Name(k)] = [codec |-> AsCodec(k), by |-> by]]

\* encoding.RegisterCompressor(c): registeredCompressor[c.Name()] = c;
\* by is the number of the Register call that made c (0: the package's init)
RegisterCompressor(r, k, by) ==
  [r EXCEPT ![Zstd_Name(k)] = [codec |-> AsCodec(k), by |-> by]]

\* a Register that registers the dictionary codec whatever it is given
Mut_Register_Unguarded(r, dict, by) ==
  RegisterCompressor(RegisterCompressor(r, NewZstd, by), NewZstdDict(dict), by)

\* Register(dict), on the registry r
RegisterBody(r, dict, by) ==
  LET r1 == RegisterCompressor(r, NewZstd, by)
  IN IF dict # NilDict THEN RegisterCompressor(r1, NewZstdDict(dict), by) ELSE r1

\* func init(): encoding.RegisterCompressor(NewZstd())
init == RegisterCompressor([n \in RegNames |-> NoEntry], NewZstd, 0)

NoReg == [byName |-> init, calls |-> 0, arg |-> NilDict, prevArg |-> NilDict,
          before |-> init, dictBy |-> 0, dictArg |-> NilDict]

\* ---------------------------------------------------------------- analyzer
\* A test sample as the analyzer sees it: len(sample) and the lengths of what
\* the gzip writer, compNone.Compress and compDict.Compress make of it (all
\* three are external compressors; their output lengths are inputs here).
Sample(size, gzip, plain, dict) ==
  [size |-> size, gzip |-> gzip, plain |-> plain, dict |-> dict]

\* totalUncompressed, totalGzip, totalZstd, totalZstdDict of main;
\* totalOrig, totalGzip, totalZstd, totalDict of analyzeScenario
NoTotals == [uncompressed |-> 0, gzip |-> 0, zstd |-> 0, dict |-> 0]

\* a ledger whose dictionary total counts the savings instead of the size
Mut_main_loop_body_Savings(t, sample) ==
  [uncompressed |-> t.uncompressed + sample.size,
   gzip |-> t.gzip + sample.gzip,
   zstd |-> t.zstd + sample.plain,
   dict |-> t.dict + (sample.dict - sample.plain)]

\* main of cmd/analyze: the sample count it asks for as a minimum, the
\* length of the training slice, the cap on generated samples, the -n default
AnalyzeMinSamples == 100
TrainSliceLen == 200
AnalyzeMaxSamples == 500
NumRequestsDefault == 100

ErrSliceBounds == "panic: runtime error: slice bounds out of range"
ErrDivideByZero == "panic: runtime error: integer divide by zero"

\* the capacity append leaves a slice of n elements with when it doubles
RECURSIVE GrowCap(_, _)
GrowCap(n, cap) == IF cap >= n THEN cap ELSE GrowCap(n, 2 * cap)

\* cap(samples) after n appends: the language promises cap >= len only; the
\* runtime grows by doubling at these sizes, an exact fit is the other end
CapsFor(n) == IF n = 0 THEN {0} ELSE {n, GrowCap(n, 1)}

\* samples[:hi] of a slice with capacity cap: hi may pass len, not cap
SliceTo(hi, cap) == hi <= cap
\* samples[lo:] of a slice with length n
SliceFrom(lo, n) == lo <= n

\* one pass of main's loop over testSamples
main_loop_body(t, sample) ==
  [uncompressed |-> t.uncompressed + sample.size,
   gzip |-> t.gzip + sample.gzip,
   zstd |-> t.zstd + sample.plain,
   dict |-> t.dict + sample.dict]

\* one pass of analyzeScenario's loop over samples
analyzeScenario_loop_body(t, sample) ==
  [uncompressed |-> t.uncompressed + sample.size,
   gzip |-> t.gzip + sample.gzip,
   zstd |-> t.zstd + sample.plain,
   dict |-> t.dict + sample.dict]

\* a break-even loop that counts a loss as no savings
RECURSIVE Mut_calculateBreakeven_loop_Clamped(_, _, _, _)
Mut_calculateBreakeven_loop_Clamped(dictCost, samples, i, cumulativeSavings) ==
  IF i > Len(samples) THEN -1
  ELSE LET savings == samples[i].plain - samples[i].dict
           cum == cumulativeSavings + (IF savings < 0 THEN 0 ELSE savings)
       IN IF cum >= dictCost THEN i
          ELSE Mut_calculateBreakeven_loop_Clamped(dictCost, samples, i + 1, cum)

\* a break-even loop that wants the savings to exceed the dictionary size
RECURSIVE Mut_calculateBreakeven_loop_Strict(_, _, _, _)
Mut_calculateBreakeven_loop_Strict(dictCost, samples, i, cumulativeSavings) ==
  IF i > Len(samples) THEN -1
  ELSE LET savings == samples[i].plain - samples[i].dict
           cum == cumulativeSavings + savings
       IN IF cum > dictCost THEN i
          ELSE Mut_calculateBreakeven_loop_Strict(dictCost, samples, i + 1, cum)

\* the loop of calculateBreakeven from its pass over the i-th sample on
\* (i counts from 1 here, so "return i + 1" of the code is i)
RECURSIVE calculateBreakeven_loop(_, _, _, _)
calculateBreakeven_loop(dictCost, samples, i, cumulativeSavings) ==
  IF i > Len(samples) THEN -1
  ELSE LET savings == samples[i].plain - samples[i].dict
           cum == cumulativeSavings + savings
       IN IF cum >= dictCost THEN i
          ELSE calculateBreakeven_loop(dictCost, samples, i + 1, cum)

\* calculateBreakeven(dict, samples, compNone, compDict), dictCost = len(dict)
calculateBreakeven(dictCost, samples) ==
  calculateBreakeven_loop(dictCost, samples, 1, 0)

\* the loop of calculateBreakevenPoint
RECURSIVE calculateBreakevenPoint_loop(_, _, _, _)
calculateBreakevenPoint_loop(dictCost, samples, i, savings) ==
  IF i > Len(samples) THEN -1
  ELSE LET sum == savings + (samples[i].plain - samples[i].dict)
       IN IF sum >= dictCost THEN i
          ELSE calculateBreakevenPoint_loop(dictCost, samples, i + 1, sum)

\* calculateBreakevenPoint(samples, dict, compNone, compDict)
calculateBreakevenPoint(dictCost, samples) ==
  calculateBreakevenPoint_loop(dictCost, samples, 1, 0)

\* the bucket table of showSizeDistribution
buckets ==
  << [minSize |-> 0, maxSize |-> 1000, count |-> 0, totalOrig |-> 0,
      totalZstd |-> 0, totalDict |-> 0],
     [minSize |-> 1000, maxSize |-> 5000, count |-> 0, totalOrig |-> 0,
      totalZstd |-> 0, totalDict |-> 0],
     [minSize |-> 5000, maxSize |-> 10000, count |-> 0, totalOrig |-> 0,
      totalZstd |-> 0, totalDict |-> 0],
     [minSize |-> 10000, maxSize |-> 50000, count |-> 0, totalOrig |-> 0,
      totalZstd |-> 0, totalDict |-> 0],
     [minSize |-> 50000, maxSize |-> 1000000, count |-> 0, totalOrig |-> 0,
      totalZstd |-> 0, totalDict |-> 0] >>

\* the inner loop of showSizeDistribution from bucket i on: the first bucket
\* whose range holds the sample is updated and the loop breaks
RECURSIVE showSizeDistribution_place(_, _, _)
showSizeDistribution_place(bs, sample, i) ==
  IF i > Len(bs) THEN bs
  ELSE IF sample.size >= bs[i].minSize /\ sample.size < bs[i].maxSize
       THEN [bs EXCEPT ![i] = [@ EXCEPT !.count = @ + 1,
                                        !.totalOrig = @ + sample.size,
                                        !.totalZstd = @ + sample.plain,
                                        !.totalDict = @ + sample.dict]]
       ELSE showSizeDistribution_place(bs, sample, i + 1)

\* the outer loop of showSizeDistribution from the k-th sample on
RECURSIVE showSizeDistribution_loop(_, _, _)
showSizeDistribution_loop(bs, samples, k) ==
  IF k > Len(samples) THEN bs
  ELSE showSizeDistribution_loop(showSizeDistribution_place(bs, samples[k], 1),
                                 samples, k + 1)

\* showSizeDistribution(samples, compNone, compDict): the table it reports from
showSizeDistribution(samples) == showSizeDistribution_loop(buckets, samples, 1)

\* ---------------------------------------------------------------- training
\* the sample count below which the demo's train command gives up
MinSamples == 10
\* dictOpts.MaxDictSize when the caller leaves it 0
DefaultMaxDictSize == 32768

ErrNoSamples == "no samples provided for training"
ErrTrainer == "dict: the trainer failed"
ErrWalk == "walk: cannot read directory entry"
ErrReadFile == "read: cannot read file"
ErrFatal == "log.Fatalf"

\* opts *TrainDictOptions: nil, or MaxDictSize and ID as the caller set them
NilOpts == [nil |-> TRUE, MaxDictSize |-> 0, ID |-> 0]
TrainOpts == {NilOpts} \cup [nil : {FALSE}, MaxDictSize : {0, 1}, ID : {0, 1}]

NoDictOpts == [HashBytes |-> 0, ZstdDictCompat |-> FALSE, MaxDictSize |-> 0,
               ZstdDictID |-> 0]

\* what a training call returns, and whether and how the external trainer
\* was called on the way: (nil, err) or (dictionary, nil)
NoTrained == [out |-> "nil", err |-> ErrNone, called |-> FALSE, dictOpts |-> NoDictOpts]

\* what the external trainer can answer
TrainerOutcomes == {"dict", "error"}

\* dict.BuildZstdDict(samples, dictOpts), the external trainer: whether it
\* makes a dictionary of the n samples is its own affair (outcome)
BuildZstdDict(n, dictOpts, outcome) ==
  IF outcome = "dict"
    THEN [out |-> "dict", err |-> ErrNone, called |-> TRUE, dictOpts |-> dictOpts]
    ELSE [out |-> "nil", err |-> ErrTrainer, called |-> TRUE, dictOpts |-> dictOpts]

\* the options TrainDict hands to the trainer
TrainDict_dictOpts(opts) ==
  LET size == IF ~opts.nil /\ opts.MaxDictSize > 0 THEN opts.MaxDictSize ELSE 0
  IN [HashBytes |-> 6, ZstdDictCompat |-> TRUE,
      MaxDictSize |-> IF size = 0 THEN DefaultMaxDictSize ELSE size,
      ZstdDictID |-> IF opts.nil THEN 0 ELSE opts.ID]

\* a TrainDict that forwards whatever it is given
Mut_TrainDict_NoEmptyCheck(n, opts, outcome) ==
  BuildZstdDict(n, TrainDict_dictOpts(opts), outcome)

\* TrainDict(samples, opts) for n = len(samples)
TrainDict(n, opts, outcome) ==
  IF n = 0
    THEN [out |-> "nil", err |-> ErrNoSamples, called |-> FALSE, dictOpts |-> NoDictOpts]
    ELSE BuildZstdDict(n, TrainDict_dictOpts(opts), outcome)

\* ---------------------------------------------------------- package server
\* The tree under the root: every directory holds an entry of each name, in
\* lexical order; the entries MaxTreeDepth levels down are files.  A relative
\* path is the sequence of its names; the root's is empty (".").
Names == <<"a", "b:c">>

\* the os.PathListSeparator characters (':') in a name
Colons(name) == IF name = "b:c" THEN 1 ELSE 0

RECURSIVE ColonsIn(_)
ColonsIn(path) ==
  IF path = <<>> THEN 0 ELSE Colons(Head(path)) + ColonsIn(Tail(path))

\* len(filepath.SplitList(relPath)): SplitList splits a PATH-style list at
\* the list separator ':', not a path at '/'
SplitList_len(path) == IF path = <<>> THEN 0 ELSE 1 + ColonsIn(path)

\* d.IsDir()
IsDir(path) == Len(path) < MaxTreeDepth

\* what WalkDir reads in a directory
Children(path) ==
  IF IsDir(path) THEN [k \in 1..Len(Names) |-> Append(path, Names[k])] ELSE <<>>

\* the entries under a directory depth levels down from the root
RECURSIVE CountBelow(_)
CountBelow(depth) ==
  IF depth >= MaxTreeDepth THEN 0 ELSE Len(Names) * (1 + CountBelow(depth + 1))

\* what can happen at an entry: all well, WalkDir reports a permission error
\* or another error, the context is cancelled, d.Info() fails
WalkOutcomes == {"ok", "permission", "error", "cancelled", "no info"}

ErrCancelled == "context canceled"
ErrReadDir == "readdirent: input/output error"

\* The function ListFiles hands to filepath.WalkDir, for one entry: what it
\* returns and whether it appended the entry to files.
ListFiles_WalkDirFunc(maxDepth, path, what) ==
  IF what = "permission"
    THEN [ret |-> IF IsDir(path) THEN "SkipDir" ELSE "nil", add |-> FALSE]
  ELSE IF what = "error" THEN [ret |-> ErrReadDir, add |-> FALSE]
  ELSE IF what = "cancelled" THEN [ret |-> ErrCancelled, add |-> FALSE]
  ELSE IF path = <<>> THEN [ret |-> "nil", add |-> FALSE]
  ELSE IF maxDepth > 0 /\ SplitList_len(path) > maxDepth
    THEN [ret |-> IF IsDir(path) THEN "SkipDir" ELSE "nil", add |-> FALSE]
  ELSE IF what = "no info" THEN [ret |-> "nil", add |-> FALSE]
  ELSE [ret |-> "nil", add |-> TRUE]

\* ------------------------------------------------------------------ state
\* the goroutines sharing a codec
Callers == {1, 2}
InstIds == 1..MaxInst
PoolNames == {"c.encoderPool", "c.decoderPool", "z.encoderPool", "z.decoderPool"}

VARIABLES
  c,        \* the shared *Compressor
  z,        \* the shared *Zstd
  engines,  \* the engine instances constructed so far, by identity
  nextId,   \* identity of the next instance constructed
  pool,     \* the four sync.Pools: how often each holds each instance
  pc,       \* where each caller is: "idle", "running", "stream", "panic"
  loc,      \* each caller's call frame or the stream wrapper it holds
  last,     \* the call that returned (or panicked) most recently
  rt,       \* the sequential compress/decompress pipeline
  reg,      \* grpc's process-wide compressor registry and the Register calls made
  made,     \* the codec constructed most recently and what its constructor returned
  an,       \* the analyzer: its test samples, running totals and results
  tr,       \* the training adapter: the call in progress and its result
  ls        \* the file-list server: the ListFiles call in progress

vars == <<c, z, engines, nextId, pool, pc, loc, last, rt, reg, made, an, tr, ls>>

\* stream state of an engine: "unbound" as constructed with a nil endpoint,
\* "open" after Reset, "closed" after Encoder.Close, "eof" / "failed" once a
\* call has returned io.EOF / another error (both stay until the next Reset)
EngStates == {"unbound", "open", "closed", "eof", "failed"}

Unused == [kind |-> "unused", dict |-> NilDict, conc |-> 0, st |-> "unbound"]
Built(e) == [kind |-> e.kind, dict |-> e.dict, conc |-> e.conc, st |-> "unbound"]

NoLoc == [op |-> "none", inst |-> 0, hit |-> FALSE, puts |-> 0]
NoCall == [op |-> "none", outcome |-> "none", hit |-> FALSE, inst |-> 0,
           data |-> <<>>, dst |-> <<>>, out |-> <<>>, err |-> ErrNone,
           released |-> <<>>, built |-> "none", was |-> "unbound"]
NoResult == [outcome |-> "none", out |-> <<>>, err |-> ErrNone]
NoRT == [stage |-> "off", a |-> NilDict, b |-> NilDict, data |-> <<>>, pre |-> <<>>,
         comp |-> NoResult, damage |-> "none", input |-> <<>>, who |-> "none",
         dst |-> <<>>, res |-> NoResult, filling |-> <<>>]

\* what HasDict and DictSize said right after New, how many one-shot calls
\* the codec has served since, and what the latest returned
NoIntro == [has |-> FALSE, size |-> 0]
NoMade == [op |-> "none", src |-> NoSource, codec |-> NoCodec, err |-> ErrNone,
           atNew |-> NoIntro, used |-> 0, res |-> NoResult]
\* main of cmd/analyze up to its final summary: len(samples) and
\* cap(samples), the -n flag, and the two slices as index ranges [lo, hi)
NoSplit == [stage |-> "start", n |-> 0, cap |-> 0, numRequests |-> 0,
            train |-> <<0, 0>>, test |-> <<0, 0>>, why |-> ""]
NoAn == [fn |-> "none", dictCost |-> 0, samples |-> <<>>, totals |-> NoTotals,
         prev |-> NoTotals, called |-> FALSE, ret |-> -1, hadBefore |-> FALSE,
         before |-> -1, buckets |-> buckets, split |-> NoSplit]
\* ListFiles at rest: its MaxDepth, the entries WalkDir has still to visit,
\* the deepest entry visited, the files collected, and what it returned
NoLs == [stage |-> "idle", maxDepth |-> 0, todo |-> <<>>, deepest |-> 0,
         files |-> <<>>, faults |-> 0, err |-> ErrNone, TotalCount |-> -1]
NoTr == [entry |-> "none", stage |-> "idle", opts |-> NilOpts, n |-> 0,
         sawDir |-> FALSE, res |-> NoTrained]

EmptyPool == [i \in InstIds |-> 0]

RECURSIVE SumTo(_, _)
SumTo(b, n) == IF n = 0 THEN 0 ELSE b[n] + SumTo(b, n - 1)
PoolSize(b) == SumTo(b, MaxInst)

\* sync.Pool.Put: the pool keeps the value, as often as it is put.  The
\* pool may drop any value at any time; a full pool drops it at once.
Put(b, i) == IF PoolSize(b) >= MaxPool THEN b ELSE [b EXCEPT ![i] = @ + 1]

Take(b, i) == [b EXCEPT ![i] = @ - 1]

RECURSIVE PutAll(_, _)
PutAll(pl, puts) ==
  IF Len(puts) = 0 THEN pl
  ELSE PutAll([pl EXCEPT ![puts[1].pool] = Put(@, puts[1].inst)], Tail(puts))

Crashed == \E cl \in Callers : pc[cl] = "panic"

\* the dictionaries the concurrent behaviours are run with
PoolDicts == {NilDict, BadDict, [kind |-> "dict", id |-> 1, content |-> 1]}

InitState ==
  /\ engines = [i \in InstIds |-> Unused]
  /\ nextId = 1
  /\ pool = [p \in PoolNames |-> EmptyPool]
  /\ pc = [cl \in Callers |-> "idle"]
  /\ loc = [cl \in Callers |-> NoLoc]
  /\ last = NoCall
  /\ rt = NoRT
  /\ reg = NoReg
  /\ made = NoMade
  /\ an = NoAn
  /\ tr = NoTr /\ ls = NoLs

\* Callers share one Compressor built by New() or New(WithDictBytes(d));
\* the package's init has built the plain Zstd.
Init ==
  /\ \E d \in PoolDicts : c = New(d)
  /\ z = NewZstd
  /\ InitState

\* Callers share one Zstd built by NewZstd() or NewZstdDict(d).
InitZ ==
  /\ c = New(NilDict)
  /\ z \in {NewZstd} \cup {NewZstdDict(d) : d \in PoolDicts \ {NilDict}}
  /\ InitState

\* -------------------------------------------- Compressor, one-shot calls
Prefixes == {<<>>, <<1>>}
SmallBuffers == {b \in Buffers : Len(b) <= 1}

\* what callers hand to Decompress / DecompressTo: nothing, a byte that
\* starts no frame, a frame of this codec, the frame cut short, and the
\* frame followed by a byte that starts no frame
DecInputs(d) ==
  LET f == FrameOf(d, <<1>>)
  IN {<<>>, <<0>>, f, SubSeq(f, 1, 3), f \o <<0>>}

DataFor(op) == IF IsEncodeOp(op) THEN SmallBuffers ELSE DecInputs(c.dict)
DstFor(op) == IF op \in {"CompressTo", "DecompressTo"} THEN Prefixes ELSE {<<>>}

\* First half of Compress / CompressTo / Decompress / DecompressTo:
\* pool.Get() and the type assertion (the arguments are not read yet).  Get returns a pooled instance when
\* the pool holds one and calls the pool's New otherwise.
Acquire(cl, op) ==
  /\ ~Crashed
  /\ pc[cl] = "idle"
  /\ \/ \E i \in InstIds :
          /\ pool[PoolOf(op)][i] > 0
          /\ pool' = [pool EXCEPT ![PoolOf(op)] = Take(@, i)]
          /\ pc' = [pc EXCEPT ![cl] = "running"]
          /\ loc' = [loc EXCEPT ![cl] = [NoLoc EXCEPT !.op = op, !.inst = i,
                        !.hit = TRUE]]
          /\ UNCHANGED <<engines, nextId, last>>
     \/ /\ PoolSize(pool[PoolOf(op)]) = 0
        /\ LET v == CompressorPoolNew(c, op)
           IN IF TypeAssertPanics(v)
                THEN /\ pc' = [pc EXCEPT ![cl] = "panic"]
                     /\ last' = [NoCall EXCEPT !.op = op, !.outcome = "panic",
                                   !.built = "failed"]
                     /\ UNCHANGED <<engines, nextId, pool, loc>>
                ELSE /\ nextId <= MaxInst
                     /\ engines' = [engines EXCEPT ![nextId] = Built(v)]
                     /\ nextId' = nextId + 1
                     /\ pc' = [pc EXCEPT ![cl] = "running"]
                     /\ loc' = [loc EXCEPT ![cl] = [NoLoc EXCEPT !.op = op,
                                   !.inst = nextId]]
                     /\ UNCHANGED <<pool, last>>
  /\ UNCHANGED <<ls, reg, made, an, tr, c, z, rt>>

\* Second half: EncodeAll / DecodeAll on the acquired engine, the deferred
\* Put, and the return.
Run(cl) ==
  /\ ~Crashed
  /\ pc[cl] = "running"
  /\ \E data \in DataFor(loc[cl].op), dst \in DstFor(loc[cl].op) :
       LET f == loc[cl]
           res == OneShotBody(f.op, engines[f.inst], dst, data)
           puts == DeferredPuts(f.op, f.inst, res)
       IN /\ pool' = PutAll(pool, puts)
          /\ last' = [op |-> f.op, outcome |-> "returned", hit |-> f.hit,
                      inst |-> f.inst, data |-> data, dst |-> dst,
                      out |-> res.out, err |-> res.err, released |-> puts,
                      built |-> IF f.hit THEN "none" ELSE "ok", was |-> "unbound"]
  /\ pc' = [pc EXCEPT ![cl] = "idle"]
  /\ loc' = [loc EXCEPT ![cl] = NoLoc]
  /\ UNCHANGED <<ls, reg, made, an, tr, c, z, engines, nextId, rt>>

\* sync.Pool drops a value it holds (garbage collection).
Evict(p, i) ==
  /\ ~Crashed
  /\ pool[p][i] > 0
  /\ pool' = [pool EXCEPT ![p] = Take(@, i)]
  /\ UNCHANGED <<ls, reg, made, an, tr, c, z, engines, nextId, pc, loc, last, rt>>

\* --------------------------------------------------- Zstd, streaming calls
ErrEOF == "EOF"
ErrEndpoint == "endpoint error"
ErrEncoderClosed == "encoder was closed"
ErrDecoderNilInput == "nil input provided to decoder"

\* The branch "if enc == nil" / "if dec == nil" of Zstd.Compress and
\* Zstd.Decompress (direct construction, no wrapper) runs for a nil pointer
\* that passed the type assertion; the pools' New never returns one.
FallbackTaken(v) == ~TypeAssertPanics(v) /\ v.kind = "nil"

\* a Reset that leaves the engine in the stream it was in
Mut_Reset_Kept(e) == e

\* Encoder.Reset(w) / Decoder.Reset(r): the engine forgets its previous
\* stream and starts a new one on the endpoint it is given.
Reset(e) == [e EXCEPT !.st = "open"]

\* Zstd.Compress(w): Get, type assertion, Reset(w), wrap in pooledEncoder.
Zstd_Compress(cl) ==
  /\ ~Crashed
  /\ pc[cl] = "idle"
  /\ \/ \E i \in InstIds :
          /\ pool["z.encoderPool"][i] > 0
          /\ pool' = [pool EXCEPT !["z.encoderPool"] = Take(@, i)]
          /\ engines' = [engines EXCEPT ![i] = Reset(@)]
          /\ pc' = [pc EXCEPT ![cl] = "stream"]
          /\ loc' = [loc EXCEPT ![cl] = [NoLoc EXCEPT !.op = "pooledEncoder",
                        !.inst = i]]
          /\ last' = [NoCall EXCEPT !.op = "Zstd.Compress", !.outcome = "returned",
                        !.hit = TRUE, !.inst = i, !.was = engines[i].st]
          /\ UNCHANGED nextId
     \/ /\ PoolSize(pool["z.encoderPool"]) = 0
        /\ LET v == Zstd_encoderPool_New(z)
           IN IF TypeAssertPanics(v)
                THEN /\ pc' = [pc EXCEPT ![cl] = "panic"]
                     /\ last' = [NoCall EXCEPT !.op = "Zstd.Compress",
                                   !.outcome = "panic", !.built = "failed"]
                     /\ UNCHANGED <<engines, nextId, pool, loc>>
                ELSE /\ nextId <= MaxInst
                     /\ engines' = [engines EXCEPT ![nextId] = Reset(Built(v))]
                     /\ nextId' = nextId + 1
                     /\ pc' = [pc EXCEPT ![cl] = "stream"]
                     /\ loc' = [loc EXCEPT ![cl] = [NoLoc EXCEPT
                                   !.op = IF FallbackTaken(v) THEN "Encoder"
                                          ELSE "pooledEncoder",
                                   !.inst = nextId]]
                     /\ last' = [NoCall EXCEPT !.op = "Zstd.Compress",
                                   !.outcome = "returned"]
                     /\ UNCHANGED pool
  /\ UNCHANGED <<ls, reg, made, an, tr, c, z, rt>>

\* Encoder.Write as the wrapper sees it: the error it returns and the
\* engine afterwards.  fail: the sink refuses the bytes.
EncWrite(e, fail) ==
  IF e.st = "closed" THEN [err |-> ErrEncoderClosed, eng |-> e]
  ELSE IF e.st = "failed" \/ fail
    THEN [err |-> ErrEndpoint, eng |-> [e EXCEPT !.st = "failed"]]
  ELSE [err |-> ErrNone, eng |-> e]

\* Encoder.Close: flushes and ends the frame; a failed stream reports its
\* error again.
EncClose(e, fail) ==
  IF e.st = "closed" THEN [err |-> ErrNone, eng |-> e]
  ELSE IF e.st = "failed" \/ fail
    THEN [err |-> ErrEndpoint, eng |-> [e EXCEPT !.st = "failed"]]
  ELSE [err |-> ErrNone, eng |-> [e EXCEPT !.st = "closed"]]

\* pooledEncoder.Write
pooledEncoder_Write(cl, fail) ==
  /\ ~Crashed
  /\ pc[cl] = "stream" /\ loc[cl].op = "pooledEncoder"
  /\ LET r == EncWrite(engines[loc[cl].inst], fail)
     IN /\ engines' = [engines EXCEPT ![loc[cl].inst] = r.eng]
  /\ UNCHANGED <<ls, reg, made, an, tr, c, z, nextId, pool, pc, loc, last, rt>>

\* pooledEncoder.Close: enc.Close(), then Put, then the error of Close
pooledEncoder_Close(cl, fail) ==
  /\ ~Crashed
  /\ pc[cl] = "stream" /\ loc[cl].op = "pooledEncoder"
  /\ loc[cl].puts < MaxPuts
  /\ LET r == EncClose(engines[loc[cl].inst], fail)
     IN /\ engines' = [engines EXCEPT ![loc[cl].inst] = r.eng]
        /\ pool' = [pool EXCEPT !["z.encoderPool"] = Put(@, loc[cl].inst)]
        /\ loc' = [loc EXCEPT ![cl].puts = @ + 1]
  /\ UNCHANGED <<ls, reg, made, an, tr, c, z, nextId, pc, last, rt>>

\* Decoder.Reset(r): refuses a nil source, leaving the decoder as it was.
DecReset(e, rnil) ==
  IF rnil THEN [err |-> ErrDecoderNilInput, eng |-> e]
  ELSE [err |-> ErrNone, eng |-> Reset(e)]

\* Zstd.Decompress(r): Get, type assertion, Reset(r); a failed Reset puts
\* the decoder back and returns the error, else wrap in pooledDecoder.
Zstd_Decompress(cl, rnil) ==
  /\ ~Crashed
  /\ pc[cl] = "idle"
  /\ \/ \E i \in InstIds :
          /\ pool["z.decoderPool"][i] > 0
          /\ LET r == DecReset(engines[i], rnil)
             IN /\ engines' = [engines EXCEPT ![i] = r.eng]
                /\ IF r.err # ErrNone
                     THEN /\ pool' = [pool EXCEPT !["z.decoderPool"] = Put(Take(@, i), i)]
                          /\ last' = [NoCall EXCEPT !.op = "Zstd.Decompress",
                                        !.outcome = "returned", !.err = r.err,
                                        !.hit = TRUE, !.inst = i, !.was = engines[i].st,
                                        !.released = <<[pool |-> "z.decoderPool", inst |-> i]>>]
                          /\ UNCHANGED <<pc, loc>>
                     ELSE /\ pool' = [pool EXCEPT !["z.decoderPool"] = Take(@, i)]
                          /\ pc' = [pc EXCEPT ![cl] = "stream"]
                          /\ loc' = [loc EXCEPT ![cl] = [NoLoc EXCEPT
                                        !.op = "pooledDecoder", !.inst = i]]
                          /\ last' = [NoCall EXCEPT !.op = "Zstd.Decompress",
                                        !.outcome = "returned", !.hit = TRUE,
                                        !.inst = i, !.was = engines[i].st]
          /\ UNCHANGED nextId
     \/ /\ PoolSize(pool["z.decoderPool"]) = 0
        /\ LET v == Zstd_decoderPool_New(z)
           IN IF TypeAssertPanics(v)
                THEN /\ pc' = [pc EXCEPT ![cl] = "panic"]
                     /\ last' = [NoCall EXCEPT !.op = "Zstd.Decompress",
                                   !.outcome = "panic", !.built = "failed"]
                     /\ UNCHANGED <<engines, nextId, pool, loc>>
                ELSE /\ nextId <= MaxInst
                     /\ nextId' = nextId + 1
                     /\ LET r == DecReset(Built(v), rnil)
                        IN /\ engines' = [engines EXCEPT ![nextId] = r.eng]
                           /\ IF r.err # ErrNone
                                THEN /\ pool' = [pool EXCEPT !["z.decoderPool"] = Put(@, nextId)]
                                     /\ last' = [NoCall EXCEPT !.op = "Zstd.Decompress",
                                                   !.outcome = "returned", !.err = r.err,
                                                   !.released = <<[pool |-> "z.decoderPool", inst |-> nextId]>>]
                                     /\ UNCHANGED <<pc, loc>>
                                ELSE /\ pc' = [pc EXCEPT ![cl] = "stream"]
                                     /\ loc' = [loc EXCEPT ![cl] = [NoLoc EXCEPT
                                                   !.op = IF FallbackTaken(v) THEN "Decoder"
                                                          ELSE "pooledDecoder",
                                                   !.inst = nextId]]
                                     /\ last' = [NoCall EXCEPT !.op = "Zstd.Decompress",
                                                   !.outcome = "returned"]
                                     /\ UNCHANGED pool
  /\ UNCHANGED <<ls, reg, made, an, tr, c, z, rt>>

ReadOutcomes == {"data", "eof", "fail"}

\* Decoder.Read as the wrapper sees it.  what: what the source holds next
\* (more data, its end, or an error of the endpoint).  io.EOF and errors
\* stay with the decoder until its next Reset.
DecRead(e, what) ==
  IF e.st = "eof" THEN [err |-> ErrEOF, eng |-> e]
  ELSE IF e.st = "failed" THEN [err |-> ErrEndpoint, eng |-> e]
  ELSE IF what = "eof" THEN [err |-> ErrEOF, eng |-> [e EXCEPT !.st = "eof"]]
  ELSE IF what = "fail" THEN [err |-> ErrEndpoint, eng |-> [e EXCEPT !.st = "failed"]]
  ELSE [err |-> ErrNone, eng |-> e]

\* pooledDecoder.Read: dec.Read, and a Put when it returned io.EOF
pooledDecoder_Read(cl, what) ==
  /\ ~Crashed
  /\ pc[cl] = "stream" /\ loc[cl].op = "pooledDecoder"
  /\ loc[cl].puts < MaxPuts
  /\ LET r == DecRead(engines[loc[cl].inst], what)
     IN /\ engines' = [engines EXCEPT ![loc[cl].inst] = r.eng]
        /\ IF r.err = ErrEOF
             THEN /\ pool' = [pool EXCEPT !["z.decoderPool"] = Put(@, loc[cl].inst)]
                  /\ loc' = [loc EXCEPT ![cl].puts = @ + 1]
             ELSE UNCHANGED <<pool, loc>>
  /\ UNCHANGED <<ls, reg, made, an, tr, c, z, nextId, pc, last, rt>>

\* The caller lets go of the writer or reader it holds: after Close, after
\* the end of the data, after an error, or before any of these.
Drop(cl) ==
  /\ ~Crashed
  /\ pc[cl] = "stream"
  /\ pc' = [pc EXCEPT ![cl] = "idle"]
  /\ loc' = [loc EXCEPT ![cl] = NoLoc]
  /\ UNCHANGED <<ls, reg, made, an, tr, c, z, engines, nextId, pool, last, rt>>

Next ==
  \/ \E cl \in Callers, op \in OneShotOps : Acquire(cl, op)
  \/ \E cl \in Callers : Run(cl)
  \/ \E p \in {"c.encoderPool", "c.decoderPool"}, i \in InstIds : Evict(p, i)

\* concurrent one-shot calls on the shared Compressor
Spec == Init /\ [][Next]_vars

NextZ ==
  \/ \E cl \in Callers : Zstd_Compress(cl)
  \/ \E cl \in Callers, fail \in BOOLEAN : pooledEncoder_Write(cl, fail)
  \/ \E cl \in Callers, fail \in BOOLEAN : pooledEncoder_Close(cl, fail)
  \/ \E cl \in Callers, rnil \in BOOLEAN : Zstd_Decompress(cl, rnil)
  \/ \E cl \in Callers, what \in ReadOutcomes : pooledDecoder_Read(cl, what)
  \/ \E cl \in Callers : Drop(cl)
  \/ \E p \in {"z.encoderPool", "z.decoderPool"}, i \in InstIds : Evict(p, i)

\* concurrent streams on the shared Zstd
SpecZ == InitZ /\ [][NextZ]_vars

\* One caller's streams on the shared Zstd, one after the other: with the
\* pool filled, a hand-out is of an instance used before.
NextReset ==
  \/ Zstd_Compress(1)
  \/ \E fail \in BOOLEAN : pooledEncoder_Write(1, fail)
  \/ \E fail \in BOOLEAN : pooledEncoder_Close(1, fail)
  \/ \E rnil \in BOOLEAN : Zstd_Decompress(1, rnil)
  \/ \E what \in ReadOutcomes : pooledDecoder_Read(1, what)
  \/ Drop(1)
  \/ \E p \in {"z.encoderPool", "z.decoderPool"}, i \in InstIds : Evict(p, i)

SpecReset == InitZ /\ [][NextReset]_vars

\* ------------------------------------- one caller, compress then decompress
\* A one-shot operation of Compressor cdc run by a single caller on a pool
\* that holds nothing: Get calls the pool's New, the body runs, the
\* deferred Put follows.
OneShot(cdc, op, dst, data) ==
  LET v == CompressorPoolNew(cdc, op)
  IN IF TypeAssertPanics(v) THEN [NoResult EXCEPT !.outcome = "panic"]
     ELSE LET res == OneShotBody(op, v, dst, data)
          IN [outcome |-> "returned", out |-> res.out, err |-> res.err]

\* Two Compressors A and B and a plain buffer.
InitRT ==
  /\ c = New(NilDict)
  /\ z = NewZstd
  /\ engines = [i \in InstIds |-> Unused]
  /\ nextId = 1
  /\ pool = [p \in PoolNames |-> EmptyPool]
  /\ pc = [cl \in Callers |-> "idle"]
  /\ loc = [cl \in Callers |-> NoLoc]
  /\ last = NoCall
  /\ reg = NoReg /\ made = NoMade /\ an = NoAn /\ tr = NoTr /\ ls = NoLs
  /\ \E a \in DictBytes, b \in DictBytes, data \in Buffers :
       rt = [NoRT EXCEPT !.stage = "start", !.a = a, !.b = b, !.data = data]

\* A.CompressTo(pre, data); A.Compress(data) when pre is empty.  The
\* payload handed on is what follows pre in the result.
RT_Compress(pre) ==
  /\ rt.stage = "start"
  /\ LET r == OneShot(New(rt.a), IF pre = <<>> THEN "Compress" ELSE "CompressTo",
                      pre, rt.data)
     IN rt' = [rt EXCEPT !.pre = pre, !.comp = r,
                 !.input = SubSeq(r.out, Len(pre) + 1, Len(r.out)),
                 !.stage = IF r.outcome = "panic" THEN "panic" ELSE "compressed"]
  /\ UNCHANGED <<ls, reg, made, an, tr, c, z, engines, nextId, pool, pc, loc, last>>

\* every value but x that a position of a payload can take
OtherThan(x) == (0..Magic) \ {x}

\* The payload is damaged on its way: cut to a non-empty proper prefix, or
\* followed by a byte that starts no frame, or its magic number or its
\* checksum is replaced by another value.
RT_Damage(kind, k, v) ==
  /\ rt.stage = "compressed" /\ rt.damage = "none"
  /\ \/ /\ kind = "truncated"
        /\ k \in 1..Len(rt.input) - 1
        /\ rt' = [rt EXCEPT !.damage = kind, !.input = SubSeq(rt.input, 1, k)]
     \/ /\ kind = "trailing garbage"
        /\ v \in Byte
        /\ rt' = [rt EXCEPT !.damage = kind, !.input = rt.input \o <<v>>]
     \/ /\ kind = "bad magic"
        /\ Len(rt.input) > 0 /\ v \in OtherThan(Magic)
        /\ rt' = [rt EXCEPT !.damage = kind, !.input = [rt.input EXCEPT ![1] = v]]
     \/ /\ kind = "bad checksum"
        /\ Len(rt.input) > 0 /\ v \in OtherThan(rt.input[Len(rt.input)])
        /\ rt' = [rt EXCEPT !.damage = kind,
                    !.input = [rt.input EXCEPT ![Len(rt.input)] = v]]
  /\ UNCHANGED <<ls, reg, made, an, tr, c, z, engines, nextId, pool, pc, loc, last>>

DamageKinds == {"truncated", "trailing garbage", "bad magic", "bad checksum"}

\* who.DecompressTo(dst, payload); who.Decompress(payload) when dst is empty
RT_Decompress(who, dst) ==
  /\ rt.stage = "compressed"
  /\ LET cdc == IF who = "A" THEN New(rt.a) ELSE New(rt.b)
         r == OneShot(cdc, IF dst = <<>> THEN "Decompress" ELSE "DecompressTo",
                      dst, rt.input)
     IN rt' = [rt EXCEPT !.who = who, !.dst = dst, !.res = r,
                 !.stage = "decompressed"]
  /\ UNCHANGED <<ls, reg, made, an, tr, c, z, engines, nextId, pool, pc, loc, last>>

NextRT ==
  \/ \E pre \in Prefixes : RT_Compress(pre)
  \/ \E kind \in DamageKinds, k \in 1..MaxLen + 4, v \in 0..Magic : RT_Damage(kind, k, v)
  \/ \E who \in {"A", "B"}, dst \in Prefixes : RT_Decompress(who, dst)

\* sequential use: compress with A, decompress with A or with B
SpecRT == InitRT /\ [][NextRT]_vars

\* --------------------------------------------- one caller, Writer and Reader
\* One Compressor and a buffer, as TestCompressor_StreamingRoundTrip has them
InitStream ==
  /\ c = New(NilDict)
  /\ z = NewZstd
  /\ engines = [i \in InstIds |-> Unused]
  /\ nextId = 1
  /\ pool = [p \in PoolNames |-> EmptyPool]
  /\ pc = [cl \in Callers |-> "idle"]
  /\ loc = [cl \in Callers |-> NoLoc]
  /\ last = NoCall
  /\ reg = NoReg /\ made = NoMade /\ an = NoAn /\ tr = NoTr /\ ls = NoLs
  /\ \E a \in DictBytes, data \in Buffers :
       rt = [NoRT EXCEPT !.stage = "stream", !.a = a, !.data = data]

\* w, err := c.Writer(&compressed)
Stream_Writer ==
  /\ rt.stage = "stream"
  /\ rt' = IF Compressor_Writer(New(rt.a)) = Nil
             THEN [rt EXCEPT !.stage = "writer error"]
             ELSE [rt EXCEPT !.stage = "writing"]
  /\ UNCHANGED <<ls, reg, made, an, tr, c, z, engines, nextId, pool, pc, loc, last>>

\* w.Write(p) for the next k bytes of the data
Stream_Write(k) ==
  /\ rt.stage = "writing"
  /\ k \in 1..Len(rt.data) - Len(rt.filling)
  /\ rt' = [rt EXCEPT !.filling = @ \o SubSeq(rt.data, Len(@) + 1, Len(@) + k)]
  /\ UNCHANGED <<ls, reg, made, an, tr, c, z, engines, nextId, pool, pc, loc, last>>

\* w.Close() once everything is written
Stream_Close ==
  /\ rt.stage = "writing" /\ rt.filling = rt.data
  /\ rt' = [rt EXCEPT !.stage = "written",
                      !.input = Encoder_Close(Compressor_Writer(New(rt.a)),
                                              rt.filling, <<>>)]
  /\ UNCHANGED <<ls, reg, made, an, tr, c, z, engines, nextId, pool, pc, loc, last>>

\* r, err := c.Reader(&compressed)
Stream_Reader ==
  /\ rt.stage = "written"
  /\ rt' = IF Compressor_Reader(New(rt.a)) = Nil
             THEN [rt EXCEPT !.stage = "reader error"]
             ELSE [rt EXCEPT !.stage = "reading", !.who = "A",
                             !.res = [NoResult EXCEPT !.outcome = "reading"]]
  /\ UNCHANGED <<ls, reg, made, an, tr, c, z, engines, nextId, pool, pc, loc, last>>

\* r.Read(p) with len(p) = n, as decompressed.ReadFrom(r) calls it: the next
\* bytes, or at their end io.EOF or the decoder's error
Stream_Read(n) ==
  /\ rt.stage = "reading"
  /\ LET all == Decoder_ReadAll(Compressor_Reader(New(rt.a)), rt.input)
         have == Len(rt.res.out)
         upto == IF have + n > Len(all.out) THEN Len(all.out) ELSE have + n
     IN rt' = IF have < Len(all.out)
                THEN [rt EXCEPT !.res.out = @ \o SubSeq(all.out, have + 1, upto)]
                ELSE [rt EXCEPT !.stage = "read", !.res.outcome = "returned",
                                !.res.err = all.err]
  /\ UNCHANGED <<ls, reg, made, an, tr, c, z, engines, nextId, pool, pc, loc, last>>

NextStream ==
  \/ Stream_Writer
  \/ \E k \in 1..MaxLen : Stream_Write(k)
  \/ Stream_Close
  \/ Stream_Reader
  \/ \E n \in 1..MaxLen : Stream_Read(n)

\* the streaming round trip of one Compressor
SpecStream == InitStream /\ [][NextStream]_vars

\* ----------------------------------------------------------- ListFiles
InitList ==
  /\ c = New(NilDict)
  /\ z = NewZstd
  /\ InitState

\* ListFiles(ctx, req) entered with req.MaxDepth = maxDepth: WalkDir starts
\* at the root
ListFiles(maxDepth) ==
  /\ ls.stage = "idle"
  /\ ls' = [NoLs EXCEPT !.stage = "walking", !.maxDepth = maxDepth,
                        !.todo = << <<>> >>]
  /\ UNCHANGED <<c, z, engines, nextId, pool, pc, loc, last, rt, reg, made, an, tr>>

\* WalkDir calls the function for its next entry and goes on as the
\* function says: into the directory, past it, or out with the error
ListFiles_visit(what) ==
  /\ ls.stage = "walking" /\ ls.todo # <<>>
  /\ what # "ok" => ls.faults < MaxFaults
  /\ LET path == Head(ls.todo)
         r == ListFiles_WalkDirFunc(ls.maxDepth, path, what)
     IN ls' = IF r.ret \notin {"nil", "SkipDir"}
                THEN [ls EXCEPT !.stage = "returned", !.err = r.ret,
                                !.todo = <<>>, !.files = <<>>, !.faults = @ + 1]
                ELSE [ls EXCEPT
                        !.todo = (IF r.ret = "SkipDir" THEN <<>> ELSE Children(path))
                                    \o Tail(ls.todo),
                        !.deepest = IF Len(path) > @ THEN Len(path) ELSE @,
                        !.files = IF r.add THEN Append(@, path) ELSE @,
                        !.faults = IF what = "ok" THEN @ ELSE @ + 1]
  /\ UNCHANGED <<c, z, engines, nextId, pool, pc, loc, last, rt, reg, made, an, tr>>

\* the walk is over: the response with Files and TotalCount
ListFiles_return ==
  /\ ls.stage = "walking" /\ ls.todo = <<>>
  /\ ls' = [ls EXCEPT !.stage = "returned", !.TotalCount = Len(ls.files)]
  /\ UNCHANGED <<c, z, engines, nextId, pool, pc, loc, last, rt, reg, made, an, tr>>

NextList ==
  \/ \E maxDepth \in 0..MaxDepthArg : ListFiles(maxDepth)
  \/ \E what \in WalkOutcomes : ListFiles_visit(what)
  \/ ListFiles_return

\* one ListFiles request on the tree
SpecList == InitList /\ [][NextList]_vars

\* ------------------------------------------- setup: constructors, Register
\* everything of the codecs at rest
CodecsIdle ==
  /\ c = New(NilDict)
  /\ z = NewZstd
  /\ engines = [i \in InstIds |-> Unused]
  /\ nextId = 1
  /\ pool = [p \in PoolNames |-> EmptyPool]
  /\ pc = [cl \in Callers |-> "idle"]
  /\ loc = [cl \in Callers |-> NoLoc]
  /\ last = NoCall
  /\ rt = NoRT

\* the process after package initialisation: init has registered NewZstd()
InitReg ==
  /\ CodecsIdle
  /\ reg = NoReg /\ made = NoMade /\ an = NoAn /\ tr = NoTr /\ ls = NoLs

\* zstddict.New() / New(WithDictBytes(d)) / New(WithDictFile(path))
Call_New(src) ==
  /\ LET r == New_opts(src)
     IN made' = [NoMade EXCEPT !.op = "New", !.src = src, !.codec = r.codec,
                    !.err = r.err,
                    !.atNew = IF r.err = ErrNone
                                THEN [has |-> HasDict(r.codec), size |-> DictSize(r.codec)]
                                ELSE NoIntro]
  /\ UNCHANGED <<ls, c, z, engines, nextId, pool, pc, loc, last, rt, reg, an, tr>>

\* grpccodec.NewZstd()
Call_NewZstd ==
  /\ made' = [NoMade EXCEPT !.op = "NewZstd", !.codec = AsCodec(NewZstd)]
  /\ UNCHANGED <<ls, c, z, engines, nextId, pool, pc, loc, last, rt, reg, an, tr>>

\* grpccodec.NewZstdDict(dict)
Call_NewZstdDict(dict) ==
  /\ made' = [NoMade EXCEPT !.op = "NewZstdDict",
                 !.src = [kind |-> "bytes", exists |-> TRUE, dict |-> dict],
                 !.codec = AsCodec(NewZstdDict(dict))]
  /\ UNCHANGED <<ls, c, z, engines, nextId, pool, pc, loc, last, rt, reg, an, tr>>

\* grpccodec.Register(dict): the call's number, its argument, the argument
\* of the call before, the registry it found, and the number and argument
\* of the latest call given a dictionary are kept beside the registry
Register(dict) ==
  /\ reg.calls < MaxCalls
  /\ reg' = [byName |-> RegisterBody(reg.byName, dict, reg.calls + 1),
             calls |-> reg.calls + 1, arg |-> dict, prevArg |-> reg.arg,
             before |-> reg.byName,
             dictBy |-> IF dict # NilDict THEN reg.calls + 1 ELSE reg.dictBy,
             dictArg |-> IF dict # NilDict THEN dict ELSE reg.dictArg]
  /\ UNCHANGED <<ls, c, z, engines, nextId, pool, pc, loc, last, rt, made, an, tr>>

\* what the Compressor just made is handed by its user
UseInputs == SmallBuffers \cup UNION {DecInputs(d) : d \in RegDicts \ {BadDict}}

\* One of Compress / CompressTo / Decompress / DecompressTo on the
\* Compressor New returned, start to end; none of them assigns c.dict.
Use(op, data) ==
  /\ made.op = "New" /\ made.err = ErrNone
  /\ made.used < MaxCalls
  /\ data \in IF IsEncodeOp(op) THEN SmallBuffers ELSE DecInputs(made.codec.dict)
  /\ made' = [made EXCEPT !.used = @ + 1,
                          !.res = OneShot(New(made.codec.dict), op, <<>>, data)]
  /\ UNCHANGED <<ls, c, z, engines, nextId, pool, pc, loc, last, rt, reg, an, tr>>

NextReg ==
  \/ \E src \in DictSources : Call_New(src)
  \/ \E op \in OneShotOps, data \in UseInputs : Use(op, data)
  \/ Call_NewZstd
  \/ \E dict \in RegDicts : Call_NewZstdDict(dict)
  \/ \E dict \in RegDicts : Register(dict)

\* setting codecs up: constructing them and registering them with grpc
SpecReg == InitReg /\ [][NextReg]_vars

\* ---------------------------------------------------------------- analysis
AnalyzerLoops == {"main", "analyzeScenario"}
BreakevenFns == {"calculateBreakeven", "calculateBreakevenPoint"}
AnalyzerFns == AnalyzerLoops \cup BreakevenFns \cup {"showSizeDistribution"}

\* sizes at the edges of the bucket table
BucketSizes ==
  {buckets[i].minSize : i \in 1..Len(buckets)}
    \cup {buckets[Len(buckets)].maxSize - 1, buckets[Len(buckets)].maxSize}

\* The test samples each function is run on.  A function is given what it
\* reads of a sample: the break-even functions the two zstd lengths, the
\* bucket table the sample's size and the two zstd lengths, the totals
\* loops all four lengths.
SamplesFor(fn) ==
  IF fn \in BreakevenFns
    THEN {Sample(0, 0, p, d) : p \in 0..MaxSize, d \in 0..MaxSize}
  ELSE IF fn = "showSizeDistribution"
    THEN {Sample(sz, 0, p, 1) : sz \in BucketSizes, p \in {1, MaxSize}}
  ELSE {Sample(sz, g, p, d) : sz \in {0, MaxSize}, g \in {0, MaxSize},
                              p \in {0, MaxSize}, d \in {0, MaxSize}}

AllSamples == UNION {SamplesFor(fn) : fn \in AnalyzerFns}

\* One analysis function and the size of the dictionary it is given (only
\* the break-even functions compute with len(dict); their callers pass the
\* dictionary TrainDict returned without an error, which is never empty).
InitAn ==
  /\ CodecsIdle
  /\ reg = NoReg /\ made = NoMade /\ tr = NoTr /\ ls = NoLs
  /\ \E fn \in AnalyzerFns, dictCost \in 0..MaxSize :
       /\ fn \notin BreakevenFns => dictCost = 0
       /\ fn \in BreakevenFns => dictCost >= 1
       /\ an = [NoAn EXCEPT !.fn = fn, !.dictCost = dictCost]

\* main: one pass of the loop "for i, sample := range testSamples"
main_loop(sample) ==
  /\ an.fn = "main" /\ Len(an.samples) < MaxMsgs
  /\ an' = [an EXCEPT !.samples = Append(@, sample), !.prev = an.totals,
                      !.totals = main_loop_body(an.totals, sample)]
  /\ UNCHANGED <<ls, c, z, engines, nextId, pool, pc, loc, last, rt, reg, made, tr>>

\* analyzeScenario: one pass of the loop "for _, sample := range samples"
analyzeScenario_loop(sample) ==
  /\ an.fn = "analyzeScenario" /\ Len(an.samples) < MaxMsgs
  /\ an' = [an EXCEPT !.samples = Append(@, sample), !.prev = an.totals,
                      !.totals = analyzeScenario_loop_body(an.totals, sample)]
  /\ UNCHANGED <<ls, c, z, engines, nextId, pool, pc, loc, last, rt, reg, made, tr>>

\* The caller of a break-even function or of showSizeDistribution appends a
\* message to the test set; what the function returned for the set before
\* is kept.
Offer(sample) ==
  /\ an.fn \in BreakevenFns \cup {"showSizeDistribution"}
  /\ sample \in SamplesFor(an.fn)
  /\ Len(an.samples) < MaxMsgs
  /\ an' = [an EXCEPT !.samples = Append(@, sample), !.called = FALSE,
                      !.hadBefore = an.called, !.before = an.ret]
  /\ UNCHANGED <<ls, c, z, engines, nextId, pool, pc, loc, last, rt, reg, made, tr>>

\* calculateBreakeven(dict, samples, compNone, compDict) of cmd/analyze
Call_calculateBreakeven ==
  /\ an.fn = "calculateBreakeven" /\ ~an.called
  /\ an' = [an EXCEPT !.called = TRUE,
                      !.ret = calculateBreakeven(an.dictCost, an.samples)]
  /\ UNCHANGED <<ls, c, z, engines, nextId, pool, pc, loc, last, rt, reg, made, tr>>

\* calculateBreakevenPoint(samples, dict, compNone, compDict)
Call_calculateBreakevenPoint ==
  /\ an.fn = "calculateBreakevenPoint" /\ ~an.called
  /\ an' = [an EXCEPT !.called = TRUE,
                      !.ret = calculateBreakevenPoint(an.dictCost, an.samples)]
  /\ UNCHANGED <<ls, c, z, engines, nextId, pool, pc, loc, last, rt, reg, made, tr>>

\* showSizeDistribution(samples, compNone, compDict)
Call_showSizeDistribution ==
  /\ an.fn = "showSizeDistribution" /\ ~an.called
  /\ an' = [an EXCEPT !.called = TRUE,
                      !.buckets = showSizeDistribution(an.samples)]
  /\ UNCHANGED <<ls, c, z, engines, nextId, pool, pc, loc, last, rt, reg, made, tr>>

NextAn ==
  \/ \E sample \in SamplesFor("main") : main_loop(sample)
  \/ \E sample \in SamplesFor("analyzeScenario") : analyzeScenario_loop(sample)
  \/ \E sample \in AllSamples : Offer(sample)
  \/ Call_calculateBreakeven
  \/ Call_calculateBreakevenPoint
  \/ Call_showSizeDistribution

\* the analyzer's functions, each on every test set up to MaxMsgs messages
SpecAn == InitAn /\ [][NextAn]_vars

\* ------------------------------------------------- analysis: main's split
\* main of cmd/analyze, from GenerateResponseSamples to the final summary
InitSplit ==
  /\ CodecsIdle
  /\ reg = NoReg /\ made = NoMade /\ tr = NoTr /\ ls = NoLs
  /\ \E nr \in {1, NumRequestsDefault} :
       an = [NoAn EXCEPT !.fn = "main", !.split.numRequests = nr]

\* samples, err := server.GenerateResponseSamples(dirs, 20, 500), err == nil
GenerateResponseSamples(n) ==
  /\ an.split.stage = "start"
  /\ \E cap \in CapsFor(n) :
       an' = [an EXCEPT !.split.stage = "generated", !.split.n = n,
                        !.split.cap = cap]
  /\ UNCHANGED <<ls, c, z, engines, nextId, pool, pc, loc, last, rt, reg, made, tr>>

\* if len(samples) < 100 { ...; os.Exit(1) }
main_check ==
  /\ an.split.stage = "generated"
  /\ an' = IF an.split.n < AnalyzeMinSamples
             THEN [an EXCEPT !.split.stage = "exit", !.split.why = "Not enough samples"]
             ELSE [an EXCEPT !.split.stage = "checked"]
  /\ UNCHANGED <<ls, c, z, engines, nextId, pool, pc, loc, last, rt, reg, made, tr>>

\* dict, err := zstddict.TrainDict(samples[:200], &TrainDictOptions{...})
main_train(outcome) ==
  /\ an.split.stage = "checked"
  /\ an' = IF ~SliceTo(TrainSliceLen, an.split.cap)
             THEN [an EXCEPT !.split.stage = "panic", !.split.why = ErrSliceBounds]
             ELSE LET opts == [nil |-> FALSE, MaxDictSize |-> 1, ID |-> 0]
                      r == TrainDict(TrainSliceLen, opts, outcome)
                  IN IF r.err # ErrNone
                       THEN [an EXCEPT !.split.stage = "exit", !.split.why = r.err,
                                       !.split.train = <<0, TrainSliceLen>>]
                       ELSE [an EXCEPT !.split.stage = "trained",
                                       !.split.train = <<0, TrainSliceLen>>]
  /\ UNCHANGED <<ls, c, z, engines, nextId, pool, pc, loc, last, rt, reg, made, tr>>

\* testSamples := samples[200:]; cut to the first *numRequests if longer
main_split ==
  /\ an.split.stage = "trained"
  /\ an' = IF ~SliceFrom(TrainSliceLen, an.split.n)
             THEN [an EXCEPT !.split.stage = "panic", !.split.why = ErrSliceBounds]
             ELSE LET len == an.split.n - TrainSliceLen
                      hi == IF len > an.split.numRequests
                              THEN TrainSliceLen + an.split.numRequests
                              ELSE an.split.n
                  IN [an EXCEPT !.split.stage = "split",
                                !.split.test = <<TrainSliceLen, hi>>]
  /\ UNCHANGED <<ls, c, z, engines, nextId, pool, pc, loc, last, rt, reg, made, tr>>

\* the loop over testSamples, then the final summary:
\* totalUncompressed / int64(len(testSamples))
main_summary ==
  /\ an.split.stage = "split"
  /\ an' = IF an.split.test[2] - an.split.test[1] = 0
             THEN [an EXCEPT !.split.stage = "panic", !.split.why = ErrDivideByZero]
             ELSE [an EXCEPT !.split.stage = "reported"]
  /\ UNCHANGED <<ls, c, z, engines, nextId, pool, pc, loc, last, rt, reg, made, tr>>

NextSplit ==
  \/ \E n \in 0..AnalyzeMaxSamples : GenerateResponseSamples(n)
  \/ main_check
  \/ \E outcome \in TrainerOutcomes : main_train(outcome)
  \/ main_split
  \/ main_summary

\* the analyze command on every sample count GenerateResponseSamples can return
SpecSplit == InitSplit /\ [][NextSplit]_vars

\* ---------------------------------------------------------------- training

InitTrain ==
  /\ CodecsIdle
  /\ reg = NoReg /\ made = NoMade /\ an = NoAn /\ tr = NoTr /\ ls = NoLs

\* TrainDict(samples, opts) called with n samples
Call_TrainDict(n, opts, outcome) ==
  /\ tr.stage = "idle"
  /\ tr' = [NoTr EXCEPT !.entry = "TrainDict", !.stage = "returned", !.opts = opts,
                        !.n = n, !.res = TrainDict(n, opts, outcome)]
  /\ UNCHANGED <<ls, c, z, engines, nextId, pool, pc, loc, last, rt, reg, made, an>>

\* runTrain of the demo command: too few samples are fatal, else TrainDict
\* with MaxDictSize from the -size flag
runTrain(n, outcome) ==
  /\ tr.stage = "idle"
  /\ LET opts == [nil |-> FALSE, MaxDictSize |-> 1, ID |-> 0]
         r == TrainDict(n, opts, outcome)
     IN tr' = [NoTr EXCEPT !.entry = "runTrain", !.stage = "returned",
                  !.opts = opts, !.n = n,
                  !.res = IF n < MinSamples \/ r.err # ErrNone
                            THEN [r EXCEPT !.out = "nil", !.err = ErrFatal,
                                           !.called = n >= MinSamples]
                            ELSE r]
  /\ UNCHANGED <<ls, c, z, engines, nextId, pool, pc, loc, last, rt, reg, made, an>>

\* TrainDictFromFiles(dir, opts) / TrainDictFromReader(sampleFn, opts) entered
Begin(entry, opts) ==
  /\ tr.stage = "idle"
  /\ entry \in {"TrainDictFromFiles", "TrainDictFromReader"}
  /\ tr' = [NoTr EXCEPT !.entry = entry, !.stage = "collecting", !.opts = opts]
  /\ UNCHANGED <<ls, c, z, engines, nextId, pool, pc, loc, last, rt, reg, made, an>>

\* TrainDictFromFiles: filepath.WalkDir calls the function for one entry:
\* an entry it could not read, a directory, a file that is then read or
\* cannot be read
WalkDir_fn(what) ==
  /\ tr.entry = "TrainDictFromFiles" /\ tr.stage = "collecting"
  /\ \/ /\ what = "walk error"
        /\ tr' = [tr EXCEPT !.stage = "returned", !.res = [NoTrained EXCEPT !.err = ErrWalk]]
     \/ /\ what = "directory"
        /\ tr' = [tr EXCEPT !.sawDir = TRUE]
     \/ /\ what = "file" /\ tr.n < MaxSamples
        /\ tr' = [tr EXCEPT !.n = @ + 1]
     \/ /\ what = "unreadable file"
        /\ tr' = [tr EXCEPT !.stage = "returned",
                            !.res = [NoTrained EXCEPT !.err = ErrReadFile]]
  /\ UNCHANGED <<ls, c, z, engines, nextId, pool, pc, loc, last, rt, reg, made, an>>

\* TrainDictFromReader: sampleFn() returns (sample, true)
sampleFn_ok ==
  /\ tr.entry = "TrainDictFromReader" /\ tr.stage = "collecting"
  /\ tr.n < MaxSamples
  /\ tr' = [tr EXCEPT !.n = @ + 1]
  /\ UNCHANGED <<ls, c, z, engines, nextId, pool, pc, loc, last, rt, reg, made, an>>

\* the walk is over / sampleFn() returns ok = false:
\* return TrainDict(samples, opts)
Collected(outcome) ==
  /\ tr.stage = "collecting"
  /\ tr' = [tr EXCEPT !.stage = "returned", !.res = TrainDict(tr.n, tr.opts, outcome)]
  /\ UNCHANGED <<ls, c, z, engines, nextId, pool, pc, loc, last, rt, reg, made, an>>

WalkEntries == {"walk error", "directory", "file", "unreadable file"}

NextTrain ==
  \/ \E n \in 0..MaxSamples, opts \in TrainOpts, outcome \in TrainerOutcomes : Call_TrainDict(n, opts, outcome)
  \/ \E n \in 0..MaxSamples, outcome \in TrainerOutcomes : runTrain(n, outcome)
  \/ \E entry \in {"TrainDictFromFiles", "TrainDictFromReader"}, opts \in TrainOpts : Begin(entry, opts)
  \/ \E what \in WalkEntries : WalkDir_fn(what)
  \/ sampleFn_ok
  \/ \E outcome \in TrainerOutcomes : Collected(outcome)

\* training a dictionary through each entry point
SpecTrain == InitTrain /\ [][NextTrain]_vars

TypeOK ==
  /\ nextId \in 1..MaxInst + 1
  /\ \A p \in PoolNames : PoolSize(pool[p]) <= MaxPool
  /\ \A cl \in Callers : pc[cl] \in {"idle", "running", "stream", "panic"}

\* ------------------------------------------------------------------ claims
\* caller cl has acquired instance i and not released it: it is inside a
\* one-shot call using i, or holds a stream wrapper of i that has made no Put
Holds(cl, i) ==
  /\ loc[cl].inst = i
  /\ \/ pc[cl] = "running"
     \/ pc[cl] = "stream" /\ loc[cl].puts = 0

\* C1: no engine instance is held by two callers at the same time.
C1_ExclusiveOwnership ==
  \A i \in InstIds : \A c1, c2 \in Callers :
    Holds(c1, i) /\ Holds(c2, i) => c1 = c2

\* the sequential pipeline has run Decompress(Compress(data)) on Compressor A
RoundTripRan ==
  /\ rt.stage = "decompressed" /\ rt.who = "A" /\ rt.damage = "none"
  /\ rt.pre = <<>> /\ rt.dst = <<>>

\* C2: Decompress(Compress(b)) on one Compressor, with or without a
\* dictionary, succeeds and returns exactly b (the empty b included).
C2_RoundTrip ==
  RoundTripRan =>
    /\ rt.comp.outcome = "returned" /\ rt.comp.err = ErrNone
    /\ rt.res.outcome = "returned" /\ rt.res.err = ErrNone
    /\ rt.res.out = rt.data

C2_Witness ==
  /\ RoundTripRan /\ rt.a.kind = "dict" /\ Len(rt.data) = MaxLen
  /\ rt.res.out = rt.data /\ rt.comp.out # rt.data

\* the instances of the Compressor a caller is inside a one-shot call with
RunningWith(i) == {cl \in Callers : pc[cl] = "running" /\ loc[cl].inst = i}

\* C3: a one-shot operation that acquired an instance has, when it returns,
\* put that instance once into the pool it took it from, also when the body
\* returned an error; so an instance is in at most one place at a time.
C3_ReleasedExactlyOnce ==
  /\ last.op \in OneShotOps /\ last.outcome = "returned" =>
       last.released = <<[pool |-> PoolOf(last.op), inst |-> last.inst]>>
  /\ \A i \in InstIds :
       pool["c.encoderPool"][i] + pool["c.decoderPool"][i]
         + Cardinality(RunningWith(i)) <= 1

C3_Witness ==
  /\ last.op = "Decompress" /\ last.outcome = "returned" /\ last.err # ErrNone
  /\ pool["c.decoderPool"][last.inst] = 1

\* C4: the pool never holds the same encoder more than once, and a stream
\* writer returns its encoder at most once, whatever Write and Close calls
\* are made on it.
C4_EncoderReturnedOnce ==
  /\ \A i \in InstIds : pool["z.encoderPool"][i] <= 1
  /\ \A cl \in Callers : loc[cl].op = "pooledEncoder" => loc[cl].puts <= 1

\* C5: a stream reader puts its decoder back at most once per acquisition,
\* whatever Read calls are made on it.
C5_DecoderPutAtMostOnce ==
  \A cl \in Callers : loc[cl].op = "pooledDecoder" => loc[cl].puts <= 1

\* C6: a stream on which a Read or Write failed with an error of the
\* endpoint has released its instance to the pool by the time the caller
\* lets go of it.
C6_ReleasedHoweverStreamEnds ==
  [][\A cl \in Callers :
       /\ pc[cl] = "stream" /\ pc'[cl] = "idle"
       /\ engines[loc[cl].inst].st = "failed"
       => loc[cl].puts >= 1]_vars

\* C7: a call during which constructing an engine failed returns an error
\* to its caller.
C7_ConstructionFailureReturnsError ==
  last.built = "failed" => last.outcome = "returned" /\ last.err # ErrNone

\* the engine a one-shot operation gets by constructing it directly for
\* the Compressor's dictionary configuration
DirectEngine(op) == IF IsEncodeOp(op) THEN NewWriter(c.dict, 0) ELSE NewReader(c.dict)

\* C8: an instance acquired on a pool miss is, like a pooled one, an engine
\* of the right direction bound to the codec's dictionary, and the call
\* returns what it returns with a directly constructed engine, hit or miss.
C8_MissIsTransparent ==
  /\ \A cl \in Callers : pc[cl] = "running" =>
       /\ engines[loc[cl].inst].dict = c.dict
       /\ engines[loc[cl].inst].kind = DirectEngine(loc[cl].op).kind
  /\ last.op \in OneShotOps /\ last.outcome = "returned" =>
       [out |-> last.out, err |-> last.err]
         = OneShotBody(last.op, DirectEngine(last.op), last.dst, last.data)

C8_Witness ==
  /\ last.op = "Decompress" /\ last.outcome = "returned" /\ last.hit
  /\ last.err = ErrNone /\ Len(last.out) > 0 /\ c.dict.kind = "dict"
  /\ nextId > MaxInst

\* The pipeline has passed a frame of Compressor A to Decompress or
\* DecompressTo of Compressor B, both bound to dictionaries, B's another.
\* (Compressing the empty buffer produces no frame.)
CrossDecoded ==
  /\ rt.stage = "decompressed" /\ rt.who = "B" /\ rt.damage = "none"
  /\ rt.a.kind = "dict" /\ rt.b.kind = "dict" /\ rt.a # rt.b
  /\ rt.input # <<>>

NoDecodedBytes == rt.res.out = <<>> \/ rt.res.out = rt.dst

\* C9 as claimed: a frame made with dictionary A and decoded by a codec
\* bound to a different dictionary B yields an error and no decoded bytes.
C9_MismatchAlwaysRejected ==
  CrossDecoded => rt.res.err # ErrNone /\ NoDecodedBytes

\* C9 as amended: a frame made with dictionary A is rejected, with no
\* decoded bytes, by a codec bound to a dictionary whose dictionary ID
\* differs from A's.
C9_MismatchRejectedById ==
  CrossDecoded /\ rt.a.id # rt.b.id =>
    /\ rt.res.outcome = "returned"
    /\ rt.res.err # ErrNone
    /\ NoDecodedBytes

C9_Witness ==
  /\ CrossDecoded /\ rt.a.id # rt.b.id /\ Len(rt.data) = MaxLen
  /\ rt.res.err = ErrUnknownDictionary /\ rt.res.out = <<>> /\ rt.dst # <<>>

\* The pipeline has passed a damaged payload to Decompress or DecompressTo.
\* (A replaced checksum makes the frame invalid for a decoder that has the
\* encoder's dictionary; under another dictionary it can be the right one.)
DamagedDecoded ==
  /\ rt.stage = "decompressed" /\ rt.damage # "none"
  /\ rt.damage = "bad checksum" => rt.who = "A" \/ rt.b = rt.a

\* C10 as claimed: on invalid or truncated input a call that returns
\* returns an error and no bytes beyond the caller's dst.
C10_ErrorWithoutOutput ==
  DamagedDecoded /\ rt.res.outcome = "returned" =>
    rt.res.err # ErrNone /\ rt.res.out = rt.dst

\* C10 as amended: on invalid or truncated input the call never returns a
\* nil error; when it returns, the bytes returned with the error are
\* nothing, or dst followed by output decoded before the failure was found.
C10_NeverSilent ==
  DamagedDecoded =>
    /\ ~(rt.res.outcome = "returned" /\ rt.res.err = ErrNone)
    /\ rt.res.outcome = "returned" =>
         \/ rt.res.out = <<>>
         \/ /\ Len(rt.res.out) >= Len(rt.dst)
            /\ SubSeq(rt.res.out, 1, Len(rt.dst)) = rt.dst

C10_Witness ==
  /\ DamagedDecoded /\ rt.damage = "trailing garbage" /\ rt.who = "A"
  /\ rt.res.err # ErrNone /\ rt.res.out = rt.dst \o rt.data
  /\ rt.data # <<>> /\ rt.dst # <<>>

\* the dictionary source of a codec is no dictionary: a path that names no
\* file, or bytes that do not parse as a dictionary
InvalidOrMissing(src) ==
  \/ src.kind = "file" /\ ~src.exists
  \/ src.kind \in {"bytes", "file"} /\ src.dict = BadDict

\* C11: a codec configured with a malformed or missing dictionary source is
\* rejected at setup: the constructor returns an error and no codec.
C11_BadSourceRejectedAtSetup ==
  made.op \in {"New", "NewZstdDict"} /\ InvalidOrMissing(made.src) =>
    made.err # ErrNone /\ made.codec = NoCodec

\* the Zstd codecs in existence: the one constructed last, the registered ones
ZstdCodecs ==
  {k \in {made.codec} \cup {reg.byName[n].codec : n \in RegNames} : k.kind = "Zstd"}

\* C16: every Zstd that carries a dictionary reports "zstd-dict" and every
\* Zstd without one reports "zstd", however it was constructed.
C16_NameTellsConfigurationsApart ==
  \A k \in ZstdCodecs :
    /\ k.dict # NilDict => Zstd_Name(k) = NameZstdDict
    /\ k.dict = NilDict => Zstd_Name(k) = NameZstd

\* name and dictionary of what is registered under each name
Configs(r) == [n \in RegNames |-> [name |-> r[n].codec.name, dict |-> r[n].codec.dict]]

\* Register called twice in a row with one argument leaves the registry's
\* configurations as the first of the two calls left them
RegisterIdempotent ==
  reg.calls >= 2 /\ reg.arg = reg.prevArg => Configs(reg.byName) = Configs(reg.before)

\* C17 as stated: after Register calls, each name holds the compressor the
\* most recent call created, the dictionary name one using the dictionary
\* of the most recent call; a repeated Register changes no configuration.
C17_LatestRegisterWins ==
  reg.calls > 0 =>
    /\ \A n \in RegNames :
         reg.byName[n] # NoEntry => reg.byName[n].by = reg.calls
    /\ reg.byName[NameZstdDict] # NoEntry =>
         reg.byName[NameZstdDict].codec.dict = reg.arg
    /\ RegisterIdempotent

\* C17, amended: "zstd" holds the compressor of the most recent Register
\* call, "zstd-dict" the one of the most recent Register call that was given
\* a dictionary, bound to that dictionary; a repeated Register changes no
\* configuration.
C17_LatestDictRegisterWins ==
  reg.calls > 0 =>
    /\ reg.byName[NameZstd] = [codec |-> AsCodec(NewZstd), by |-> reg.calls]
    /\ IF reg.dictBy = 0 THEN reg.byName[NameZstdDict] = NoEntry
       ELSE reg.byName[NameZstdDict] =
              [codec |-> AsCodec(NewZstdDict(reg.dictArg)), by |-> reg.dictBy]
    /\ RegisterIdempotent

\* a Register call has replaced the dictionary codec of an earlier call
\* that was given another dictionary
C17_Witness ==
  /\ reg.calls >= 2 /\ reg.dictBy = reg.calls
  /\ reg.before[NameZstdDict] # NoEntry
  /\ reg.before[NameZstdDict].codec.dict # reg.arg

\* C18: nothing is registered under "zstd-dict" while Register has only been
\* called without a dictionary, and what is registered under "zstd-dict"
\* holds a dictionary and builds no engine without it.
C18_NoDictionaryFreeUnderDictName ==
  LET k == reg.byName[NameZstdDict].codec
  IN /\ reg.dictBy = 0 => reg.byName[NameZstdDict] = NoEntry
     /\ k # NoCodec =>
          /\ k.dict # NilDict
          /\ \A e \in {Zstd_encoderPool_New(k), Zstd_decoderPool_New(k)} :
               e = Nil \/ e.dict = k.dict

C18_Witness ==
  /\ reg.calls >= 2 /\ reg.dictBy = 0
  /\ reg.byName[NameZstd].by = reg.calls

\* plainSize - dictSize of one message, signed
Savings(sample) == sample.plain - sample.dict

\* the sum of field f over the first k samples
RECURSIVE SumField(_, _, _)
SumField(samples, f, k) ==
  IF k = 0 THEN 0 ELSE samples[k][f] + SumField(samples, f, k - 1)

\* the signed running sum of the savings over the first k samples
CumulativeSavings(samples, k) ==
  SumField(samples, "plain", k) - SumField(samples, "dict", k)

\* the prefix lengths at which the running sum has reached the dictionary size
Reaching(dictCost, samples) ==
  {k \in 1..Len(samples) : CumulativeSavings(samples, k) >= dictCost}

\* a break-even function has returned for the test set an.samples
BreakevenRan == an.fn \in BreakevenFns /\ an.called

\* C12: the break-even functions return the smallest prefix length whose
\* signed cumulative savings reach the dictionary size, -1 when there is
\* none, and an index found stays the same when messages are appended.
C12_SmallestReachingPrefix ==
  BreakevenRan =>
    /\ an.ret = IF Reaching(an.dictCost, an.samples) = {} THEN -1
                ELSE CHOOSE k \in Reaching(an.dictCost, an.samples) :
                       \A j \in Reaching(an.dictCost, an.samples) : k <= j
    /\ an.hadBefore /\ an.before # -1 => an.ret = an.before

\* break-even at the second message, after a first message with a loss
C12_Witness ==
  /\ BreakevenRan /\ an.ret = 2 /\ an.dictCost > 0
  /\ Savings(an.samples[1]) < 0

\* C13 as stated: with M1 of negative savings and M2 of savings above the
\* dictionary size, [M1, M2] gives 2 and [M2, M1] gives 1.
C13_OrderDependence ==
  BreakevenRan /\ Len(an.samples) = 2 =>
    LET a == an.samples[1]
        b == an.samples[2]
    IN /\ Savings(a) < 0 /\ Savings(b) > an.dictCost => an.ret = 2
       /\ Savings(b) < 0 /\ Savings(a) > an.dictCost => an.ret = 1

\* C13, amended: with M1 of negative savings and M2 whose savings make up
\* for M1's loss and the dictionary size together, [M1, M2] gives 2 and
\* [M2, M1] gives 1.
C13_OrderDependenceCovered ==
  BreakevenRan /\ Len(an.samples) = 2 =>
    LET a == an.samples[1]
        b == an.samples[2]
    IN /\ Savings(a) < 0 /\ Savings(a) + Savings(b) >= an.dictCost => an.ret = 2
       /\ Savings(b) < 0 /\ Savings(a) + Savings(b) >= an.dictCost => an.ret = 1

\* [M1, M2] has been evaluated, M2 just making up for M1's loss
C13_Witness ==
  /\ BreakevenRan /\ Len(an.samples) = 2 /\ an.dictCost > 0
  /\ Savings(an.samples[1]) < 0
  /\ Savings(an.samples[1]) + Savings(an.samples[2]) = an.dictCost

\* C14: after each message every running total is at least what it was
\* before and is the sum of that size over the messages processed.
C14_TotalsAreMonotoneSums ==
  an.fn \in AnalyzerLoops =>
    LET k == Len(an.samples)
    IN /\ an.totals.uncompressed = SumField(an.samples, "size", k)
       /\ an.totals.gzip = SumField(an.samples, "gzip", k)
       /\ an.totals.zstd = SumField(an.samples, "plain", k)
       /\ an.totals.dict = SumField(an.samples, "dict", k)
       /\ an.totals.uncompressed >= an.prev.uncompressed
       /\ an.totals.gzip >= an.prev.gzip
       /\ an.totals.zstd >= an.prev.zstd
       /\ an.totals.dict >= an.prev.dict

\* two messages processed, the second one larger with the dictionary
C14_Witness ==
  /\ an.fn \in AnalyzerLoops /\ Len(an.samples) = 2
  /\ an.prev.uncompressed > 0 /\ an.totals.uncompressed > an.prev.uncompressed
  /\ Savings(an.samples[2]) < 0

\* the sum of field f over the first i buckets
RECURSIVE SumBuckets(_, _, _)
SumBuckets(bs, f, i) == IF i = 0 THEN 0 ELSE bs[i][f] + SumBuckets(bs, f, i - 1)

\* C15: the bucket counts sum to the number of messages and the bucket
\* totals to the overall totals, whatever the messages' sizes.
C15_EveryMessageInOneBucket ==
  an.fn = "showSizeDistribution" /\ an.called =>
    LET k == Len(an.samples)
        n == Len(an.buckets)
    IN /\ SumBuckets(an.buckets, "count", n) = k
       /\ SumBuckets(an.buckets, "totalOrig", n) = SumField(an.samples, "size", k)
       /\ SumBuckets(an.buckets, "totalZstd", n) = SumField(an.samples, "plain", k)
       /\ SumBuckets(an.buckets, "totalDict", n) = SumField(an.samples, "dict", k)

\* a call of the training adapter has returned
AdapterReturned ==
  /\ tr.stage = "returned"
  /\ tr.entry \in {"TrainDict", "TrainDictFromFiles", "TrainDictFromReader"}

\* the call ended on an error of the file walk, before TrainDict
WalkFailed == tr.res.err \in {ErrWalk, ErrReadFile}

\* C19: training on no samples fails with an error and returns no
\* dictionary, through TrainDict, TrainDictFromReader and TrainDictFromFiles.
C19_EmptyCorpusRejected ==
  AdapterReturned /\ tr.n = 0 =>
    tr.res.err # ErrNone /\ tr.res.out = "nil" /\ ~tr.res.called

\* TrainDictFromFiles on a directory tree that holds no file
C19_Witness ==
  /\ AdapterReturned /\ tr.entry = "TrainDictFromFiles"
  /\ tr.n = 0 /\ tr.sawDir /\ tr.res.err = ErrNoSamples

\* C20: training on some samples, but fewer than the minimum count, is
\* rejected by the adapter with an error, the trainer is not called and no
\* dictionary comes back.
C20_TooFewSamplesRejected ==
  AdapterReturned /\ ~WalkFailed /\ tr.n > 0 /\ tr.n < MinSamples =>
    tr.res.err # ErrNone /\ tr.res.out = "nil" /\ ~tr.res.called

\* Compressor A has compressed data behind the prefix pre and decompressed
\* the frame, as it came, behind the prefix dst
AppendRan == rt.stage = "decompressed" /\ rt.who = "A" /\ rt.damage = "none"

\* C21: CompressTo(p, d) returns p followed by a frame that decompresses to
\* d, and DecompressTo(p, frame) returns p followed by d.
C21_AppendsToCallersBuffer ==
  AppendRan =>
    /\ rt.comp.outcome = "returned" /\ rt.comp.err = ErrNone
    /\ rt.comp.out = rt.pre \o rt.input
    /\ rt.res.outcome = "returned" /\ rt.res.err = ErrNone
    /\ rt.res.out = rt.dst \o rt.data

\* both calls were given a non-empty prefix, on a dictionary-bound codec
C21_Witness ==
  /\ AppendRan /\ rt.pre # <<>> /\ rt.dst # <<>>
  /\ rt.a.kind = "dict" /\ Len(rt.data) = MaxLen
  /\ rt.res.out = rt.dst \o rt.data

\* the totals the caller of a break-even function reports for the same test
\* set: main's loop before calculateBreakeven, analyzeScenario's loop before
\* calculateBreakevenPoint
RECURSIVE ReportedTotals(_, _, _)
ReportedTotals(fn, samples, k) ==
  IF k = 0 THEN NoTotals
  ELSE IF fn = "calculateBreakeven"
    THEN main_loop_body(ReportedTotals(fn, samples, k - 1), samples[k])
  ELSE analyzeScenario_loop_body(ReportedTotals(fn, samples, k - 1), samples[k])

\* total dictionary-free size minus total dictionary-bound size of the set
TotalSavings ==
  LET t == ReportedTotals(an.fn, an.samples, Len(an.samples))
  IN t.zstd - t.dict

\* every non-empty prefix's cumulative savings is below the dictionary size
NoPrefixReaches ==
  \A k \in 1..Len(an.samples) : CumulativeSavings(an.samples, k) < an.dictCost

\* C27: total savings >= dictionary size gives an index for any test set,
\* -1 is returned only when no prefix reaches the dictionary size, and the
\* empty test set gives -1.
C27_BreakevenMatchesTotals ==
  BreakevenRan =>
    /\ TotalSavings >= an.dictCost => an.ret \in 1..Len(an.samples)
    /\ an.ret = -1 => NoPrefixReaches
    /\ an.samples = <<>> => an.ret = -1

\* the totals reach the dictionary size exactly, at the last message only
C27_Witness ==
  /\ BreakevenRan /\ an.dictCost > 0
  /\ Len(an.samples) = MaxMsgs /\ an.ret = MaxMsgs
  /\ TotalSavings = an.dictCost

\* main of cmd/analyze has passed its minimum-samples check
SplitChecked ==
  /\ an.fn = "main" /\ an.split.n >= AnalyzeMinSamples
  /\ an.split.stage \notin {"start", "generated"}

\* C28: for every sample count that passes the minimum-samples check, the
\* training slice and the test slice lie within the sample list, are
\* disjoint, the test set is non-empty, and the run does not panic on a
\* slice bound or on a division by the test-set size.
C28_SplitWithinBounds ==
  SplitChecked =>
    /\ an.split.stage # "panic"
    /\ an.split.stage \in {"trained", "split", "reported"} =>
         an.split.train[2] <= an.split.n
    /\ an.split.stage \in {"split", "reported"} =>
         /\ an.split.train[2] <= an.split.test[1]
         /\ an.split.test[1] < an.split.test[2]
         /\ an.split.test[2] <= an.split.n

\* New has returned a Compressor
CompressorMade == made.op = "New" /\ made.err = ErrNone

\* C24: HasDict() is true exactly when the codec was built with an option
\* that gave it a dictionary (bytes, not nil); DictSize() is the byte length
\* of that dictionary, the file's length for WithDictFile and 0 when there
\* is none; neither changes over Compress/Decompress calls.
C24_IntrospectionReportsDictionary ==
  CompressorMade =>
    /\ HasDict(made.codec) <=> made.src.kind # "none" /\ made.src.dict # NilDict
    /\ DictSize(made.codec) = DictLen(made.src.dict)
    /\ HasDict(made.codec) = made.atNew.has
    /\ DictSize(made.codec) = made.atNew.size

\* a Compressor built from a dictionary file has served MaxCalls calls
C24_Witness ==
  /\ CompressorMade /\ made.src.kind = "file" /\ made.src.dict.kind = "dict"
  /\ made.used = MaxCalls /\ made.res.outcome = "returned"
  /\ HasDict(made.codec) /\ DictSize(made.codec) > 1

\* C23: every encoder a dictionary-bound codec constructs has its
\* concurrency set to 1, and Compress on a dictionary-bound codec returns
\* the same bytes for the same input whichever instance serves the call.
C23_ConcurrencyPinned ==
  /\ \A i \in InstIds :
       engines[i].kind = "enc" /\ engines[i].dict.kind = "dict"
         => engines[i].conc = 1
  /\ last.outcome = "returned" /\ IsEncodeOp(last.op) /\ c.dict.kind = "dict"
       => last.out = last.dst \o EncodeAll(NewWriter(c.dict, 1), last.data, <<>>)

\* Zstd.Decompress was given a source its decoder refuses and got as far
\* as dec.Reset(r)
ResetRefused ==
  /\ \E cl \in Callers : Zstd_Decompress(cl, TRUE)
  /\ last'.outcome = "returned"

\* C25: an instance Zstd.Compress or Zstd.Decompress hands out is in the
\* state Reset leaves it in, whatever its previous stream ended in; when
\* the decoder's Reset fails, Decompress returns the error, no caller gets
\* a reader, and the decoder is in the pool afterwards.
C25_ResetBeforeHandOut ==
  [][/\ \A cl \in Callers :
          pc[cl] = "idle" /\ pc'[cl] = "stream"
            => engines'[loc'[cl].inst].st = "open"
     /\ ResetRefused =>
          /\ last'.err = ErrDecoderNilInput
          /\ pc' = pc /\ loc' = loc
          /\ \E i \in InstIds :
               /\ last'.released = <<[pool |-> "z.decoderPool", inst |-> i]>>
               /\ pool'["z.decoderPool"][i] > 0
               /\ pool'["z.decoderPool"][i] >= pool["z.decoderPool"][i]]_vars

\* an encoder whose previous stream was closed has been handed out again
C25_Witness ==
  /\ last.op = "Zstd.Compress" /\ last.hit /\ last.was = "closed"
  /\ pc[1] = "stream" /\ loc[1].inst = last.inst
  /\ engines[last.inst].st = "open"

\* the data has gone through Writer and Close and been read to its end
StreamRan == rt.stage = "read"

\* Decompress(Compress(b)) of the same Compressor, one-shot
OneShotRoundTrip ==
  LET cdc == New(rt.a)
      comp == OneShot(cdc, "Compress", <<>>, rt.data)
  IN OneShot(cdc, "Decompress", <<>>, comp.out)

\* C22: a buffer written through Writer and closed, then read through
\* Reader to the end of the data, comes back as it was, the same bytes as
\* the one-shot Decompress(Compress(b)) returns.
C22_StreamingRoundTrip ==
  StreamRan =>
    /\ rt.res.err = ErrNone
    /\ rt.res.out = rt.data
    /\ OneShotRoundTrip.outcome = "returned" /\ OneShotRoundTrip.err = ErrNone
    /\ rt.res.out = OneShotRoundTrip.out

\* a dictionary-bound Compressor and a buffer of the greatest length
C22_Witness ==
  /\ StreamRan /\ rt.a.kind = "dict" /\ Len(rt.data) = MaxLen
  /\ rt.res.out = rt.data /\ rt.input # <<>>

\* ListFiles has returned a response
ListReturned == ls.stage = "returned" /\ ls.err = ErrNone

\* C26: with MaxDepth d > 0 no returned entry has more than d path
\* components and the walk does not go below the entries of a directory at
\* depth d; with MaxDepth 0 every entry is returned; the root is not
\* listed and TotalCount is the number of returned entries.
C26_DepthLimited ==
  ListReturned =>
    /\ ls.maxDepth > 0 =>
         /\ \A k \in 1..Len(ls.files) : Len(ls.files[k]) <= ls.maxDepth
         /\ ls.deepest <= ls.maxDepth + 1
    /\ ls.maxDepth = 0 /\ ls.faults = 0 => Len(ls.files) = CountBelow(0)
    /\ \A k \in 1..Len(ls.files) : ls.files[k] # <<>>
    /\ ls.TotalCount = Len(ls.files)
====
